---- MODULE Spec2Model ----
(***************************************************************************)
(* Froggit: the level simulation (level.py, lanes.py, models.py), the      *)
(* geometry it uses (game2d/gobject.py) and the application loop that      *)
(* drives it (app.py).                                                     *)
(*                                                                         *)
(* Units.  Positions are pixels.  Time is counted in ticks of 1/256 s, so  *)
(* that FROG_SPEED (0.25 s) is 64 ticks and a slide moves one pixel per    *)
(* tick; lane speeds are pixels per second as in the level file.  All the  *)
(* arithmetic of the code is exact on these values (dyadic rationals), so  *)
(* integers model the floats without rounding.                             *)
(***************************************************************************)
EXTENDS Integers, Sequences, FiniteSets, TLC

VARIABLES
    app,     \* Froggit: _state, _lastkeys, whether _level is set, and the
             \* position inside _animateActive (pc, key, ret)
    frog,    \* Frog: x, y, angle, frame, _frogvisible
    lanes,   \* Level._lanes: one record per Lane object
    lv,      \* Level: _lives, _frogKilled, _gameOver, _inExit, _gameWon, _animator
    err      \* the exception that ended the program, or "none"

vars == <<app, frog, lanes, lv, err>>

-----------------------------------------------------------------------------
(* consts.py *)

GRID_SIZE == 64
FROG_NORTH == 180
FROG_WEST == -90
FROG_EAST == 90
FROG_SOUTH == 0
FROG_REST == 0
FROG_STRETCHED == 4
STATE_INACTIVE == 0
STATE_LOADING == 1
STATE_ACTIVE == 2
STATE_PAUSED == 3
STATE_CONTINUE == 4
STATE_COMPLETE == 5

\* ticks per second: the resolution of time in the model
TicksPerSecond == 4 * GRID_SIZE
\* FROG_SPEED = 0.25 (seconds), in ticks
FROG_SPEED == TicksPerSecond \div 4

-----------------------------------------------------------------------------
(* Bounds and inputs *)

\* the elapsed times offered to a frame are 0, DtUnit, ..., MaxDtSteps*DtUnit
MaxDtSteps == 2
DtUnit == GRID_SIZE \div 2
DtSet == {DtUnit * k : k \in 0..MaxDtSteps}

\* the key read by _animateActive: None or one direction
Keys == {"none", "left", "right", "up", "down"}

\* The level file (DEFAULT_LEVEL): lanes bottom-to-top.  A lane without a
\* 'speed' key is written with speed 0, which is what Lane.__init__ stores.
Level1 ==
    [size |-> <<3, 4>>,
     offscreen |-> 1,
     lanes |-> <<
        [type |-> "grass", speed |-> 0, objects |-> <<>>],
        [type |-> "road", speed |-> -256,
         objects |-> << [type |-> "car", position |-> 0] >>],
        [type |-> "water", speed |-> 256,
         objects |-> << [type |-> "log", position |-> 1] >>],
        [type |-> "hedge", speed |-> 0,
         objects |-> << [type |-> "exit", position |-> 1],
                        [type |-> "exit", position |-> 2] >>] >>]

LevelFiles == {Level1}

\* The object data file (OBJECT_DATA): hitboxes are (left, top, right, bottom)
\* insets; 'size' is the pixel size of the image file (of one frame for the
\* frog sprite).
Hitboxes ==
    [images |->
        [car  |-> [hitbox |-> <<4, 6, 8, 6>>,  size |-> <<64, 64>>],
         log  |-> [hitbox |-> <<4, 8, 4, 8>>,  size |-> <<128, 64>>],
         exit |-> [hitbox |-> <<8, 8, 8, 8>>,  size |-> <<64, 64>>]],
     sprites |->
        [frog |-> [format |-> <<1, 5>>,
                   size |-> <<64, 64>>,
                   hitboxes |-> << <<8, 8, 8, 8>>, <<8, 6, 8, 6>>, <<8, 4, 8, 4>>,
                                   <<8, 2, 8, 2>>, <<8, 1, 8, 1>> >>]]]

-----------------------------------------------------------------------------
(* game2d/gobject.py: bounding boxes, collides, contains *)

\* GObject._bbox for the four right angles (hit[i] is 0-indexed in the code)
bbox(s) ==
    LET oangle == s.angle % 360
        hit == s.hitbox
        w == s.width \div 2
        h == s.height \div 2
    IN  CASE oangle = 0 ->
               [l |-> s.x + hit[1] - w, r |-> s.x - hit[3] + w,
                t |-> s.y - hit[2] + h, b |-> s.y + hit[4] - h]
          [] oangle = 90 ->
               [t |-> s.y + hit[3] - w, b |-> s.y - hit[1] + w,
                r |-> s.x - hit[4] + h, l |-> s.x + hit[2] - h]
          [] oangle = 180 ->
               [l |-> s.x + hit[3] - w, r |-> s.x - hit[1] + w,
                t |-> s.y - hit[4] + h, b |-> s.y + hit[2] - h]
          [] oangle = 270 ->
               [t |-> s.y + hit[1] - w, b |-> s.y - hit[3] + w,
                r |-> s.x - hit[2] + h, l |-> s.x + hit[4] - h]

\* GObject.collides(self, obj), both at right angles
collides(self, obj) ==
    LET b0 == bbox(obj)
        b1 == bbox(self)
        isx == (b1.l <= b0.l /\ b0.l <= b1.r) \/ (b0.l <= b1.l /\ b1.l <= b0.r)
        isy == (b1.b <= b0.b /\ b0.b <= b1.t) \/ (b0.b <= b1.b /\ b1.b <= b0.t)
    IN  isx /\ isy

\* GObject.contains(self, point), at a right angle
contains(self, point) ==
    LET bb == bbox(self)
    IN  bb.l <= point[1] /\ point[1] <= bb.r /\ bb.b <= point[2] /\ point[2] <= bb.t

-----------------------------------------------------------------------------
(* lanes.py: Lane and its subclasses *)

\* GImage built by Lane.__init__ for one entry of lane_dict['objects']
LaneObject(object, lane_dict, tile_y, hitbox_dict) ==
    [x |-> ((2 * object.position + 1) * GRID_SIZE) \div 2,
     y |-> tile_y,
     width |-> hitbox_dict.images[object.type].size[1],
     height |-> hitbox_dict.images[object.type].size[2],
     hitbox |-> hitbox_dict.images[object.type].hitbox,
     angle |-> IF lane_dict.speed < 0 THEN 180 ELSE 0,
     source |-> object.type]

\* Lane.__init__, with Road.__init__ (_carCollided) and Hedge.__init__
\* (_openexits, _closedexits, _safefrogs).  Exits are named by their index in
\* _objs; the attributes of the subclasses are carried by every lane record
\* and stay at their initial value in the lanes that do not have them.
NewLane(level_dict, lane_dict, bottom_coord, hitbox_dict) ==
    LET window_width == level_dict.size[1] * GRID_SIZE
        tile == [x |-> window_width \div 2,
                 y |-> bottom_coord + GRID_SIZE \div 2,
                 width |-> window_width, height |-> GRID_SIZE,
                 hitbox |-> <<0, 0, 0, 0>>, angle |-> 0]
        objs == [i \in 1..Len(lane_dict.objects) |->
                    LaneObject(lane_dict.objects[i], lane_dict, tile.y, hitbox_dict)]
    IN  [type |-> lane_dict.type,
         window_width |-> window_width,
         tile |-> tile,
         objs |-> objs,
         lane_speed |-> lane_dict.speed,
         buffer |-> level_dict.offscreen,
         carCollided |-> FALSE,
         openexits |-> IF lane_dict.type = "hedge"
                       THEN SelectSeq([i \in 1..Len(objs) |-> i],
                                      LAMBDA i : objs[i].source = "exit")
                       ELSE <<>>,
         closedexits |-> <<>>,
         safefrogs |-> <<>>]

\* _wrapAround that relocates at the edge of the window, not past the margin
wrapAround_AtWindowEdge(lane, x) ==
    LET right_edge == -lane.buffer * GRID_SIZE
        left_edge == lane.window_width + lane.buffer * GRID_SIZE
    IN  IF lane.lane_speed < 0
        THEN IF x <= 0 THEN left_edge + (x - right_edge) ELSE x
        ELSE IF lane.lane_speed > 0
             THEN IF x >= lane.window_width THEN right_edge + (x - left_edge) ELSE x
             ELSE x

\* _wrapAround that puts the obstacle back on the edge, dropping the overshoot
wrapAround_ToEdge(lane, x) ==
    LET right_edge == -lane.buffer * GRID_SIZE
        left_edge == lane.window_width + lane.buffer * GRID_SIZE
    IN  IF lane.lane_speed < 0
        THEN IF x <= right_edge THEN left_edge ELSE x
        ELSE IF lane.lane_speed > 0
             THEN IF x >= left_edge THEN right_edge ELSE x
             ELSE x

\* Lane._wrapAround, for one obstacle x
wrapAround(lane, x) ==
    LET right_edge == -lane.buffer * GRID_SIZE
        left_edge == lane.window_width + lane.buffer * GRID_SIZE
    IN  IF lane.lane_speed < 0
        THEN IF x <= right_edge THEN left_edge + (x - right_edge) ELSE x
        ELSE IF lane.lane_speed > 0
             THEN IF x >= left_edge THEN right_edge + (x - left_edge) ELSE x
             ELSE x

\* speed (pixels per second) times dt (ticks), in pixels
Travel(speed, dt) == (speed * dt) \div TicksPerSecond

\* Lane.update(dt)
laneUpdate(lane, dt) ==
    LET change == Travel(lane.lane_speed, dt)
    IN  [lane EXCEPT !.objs =
            [i \in 1..Len(lane.objs) |->
                [lane.objs[i] EXCEPT !.x = wrapAround(lane, lane.objs[i].x + change)]]]

\* the frog as a shape: the frame setter of GSprite keeps hitbox = hitboxes[frame]
FrogShape(f) ==
    [x |-> f.x, y |-> f.y,
     width |-> Hitboxes.sprites.frog.size[1],
     height |-> Hitboxes.sprites.frog.size[2],
     hitbox |-> Hitboxes.sprites.frog.hitboxes[f.frame + 1],
     angle |-> f.angle]

\* membership in a Python list
InList(e, seq) == \E i \in 1..Len(seq) : seq[i] = e

\* Road._carCollide(frog): the value it computes when the frog is visible
carCollide(lane, f) ==
    \E i \in 1..Len(lane.objs) : collides(lane.objs[i], FrogShape(f))

\* Road.getCarCollided(frog): returns _carCollided, recomputed only when the
\* frog is visible.  Result: the lane and the returned value.
getCarCollided(lane, f) ==
    LET lane2 == IF f.visible THEN [lane EXCEPT !.carCollided = carCollide(lane, f)]
                 ELSE lane
    IN  [lane |-> lane2, ret |-> lane2.carCollided]

\* Water.frogOnLog(frog)
frogOnLog(lane, f) ==
    \E i \in 1..Len(lane.objs) : contains(lane.objs[i], <<f.x, f.y>>)

\* frogDrowned that does not look for a log
frogDrowned_NoLog(lane, f) == collides(lane.tile, FrogShape(f))

\* Water.frogDrowned(frog)
frogDrowned(lane, f) ==
    collides(lane.tile, FrogShape(f)) /\ ~frogOnLog(lane, f)

\* the look-ahead point of goingToObstacle, willReachExit and _goingToHedge
NextPoint(f, key) ==
    CASE key = "up" -> <<f.x, f.y + GRID_SIZE>>
      [] key = "down" -> <<f.x, f.y - GRID_SIZE>>
      [] key = "left" -> <<f.x - GRID_SIZE, f.y>>
      [] key = "right" -> <<f.x + GRID_SIZE, f.y>>

\* Hedge.goingToObstacle(key, frog)
goingToObstacle(lane, key, f) ==
    \E i \in 1..Len(lane.objs) :
        contains(lane.objs[i], NextPoint(f, key)) /\ ~InList(i, lane.openexits)

\* willReachExit that takes any exit object, open or closed
willReachExit_AnyExit(lane, f, key) ==
    \E i \in 1..Len(lane.objs) :
        contains(lane.objs[i], NextPoint(f, key)) /\ lane.objs[i].source = "exit"
        /\ key # "down"

\* willReachExit without the test on the down key
willReachExit_DownToo(lane, f, key) ==
    \E i \in 1..Len(lane.objs) :
        contains(lane.objs[i], NextPoint(f, key)) /\ InList(i, lane.openexits)

\* Hedge.willReachExit(frog, key)
willReachExit(lane, f, key) ==
    \E i \in 1..Len(lane.objs) :
        contains(lane.objs[i], NextPoint(f, key)) /\ InList(i, lane.openexits)
        /\ key # "down"

\* Hedge._frogInObstacles / getFrogAtObstacle(frog)
getFrogAtObstacle(lane, f) ==
    \E i \in 1..Len(lane.objs) : contains(lane.objs[i], <<f.x, f.y>>)

\* list.remove(e): drops the first occurrence
ListRemove(seq, e) ==
    LET k == CHOOSE i \in 1..Len(seq) :
                seq[i] = e /\ \A j \in 1..(i - 1) : seq[j] # e
    IN  SubSeq(seq, 1, k - 1) \o SubSeq(seq, k + 1, Len(seq))

\* _checkReachedExit that lets the down key claim the exit like any other
RECURSIVE checkReachedExitFrom_DownClaims(_, _, _, _, _)
checkReachedExitFrom_DownClaims(lane, f, key, point, i) ==
    IF i > Len(lane.objs)
    THEN [lane |-> lane, frog |-> f, ret |-> FALSE]
    ELSE LET obj == lane.objs[i]
             hit == contains(obj, point) /\ InList(i, lane.openexits)
         IN  IF hit
             THEN [lane |-> [lane EXCEPT
                                !.safefrogs = Append(@, <<obj.x, obj.y>>),
                                !.closedexits = Append(@, i),
                                !.openexits = ListRemove(@, i)],
                   frog |-> f, ret |-> TRUE]
             ELSE checkReachedExitFrom_DownClaims(lane, f, key, point, i + 1)

\* _checkReachedExit that closes the exit without recording a safe frog
RECURSIVE checkReachedExitFrom_NoMarker(_, _, _, _, _)
checkReachedExitFrom_NoMarker(lane, f, key, point, i) ==
    IF i > Len(lane.objs)
    THEN [lane |-> lane, frog |-> f, ret |-> FALSE]
    ELSE LET obj == lane.objs[i]
             hit == contains(obj, point) /\ InList(i, lane.openexits)
         IN  IF hit /\ ~(key = "down")
             THEN [lane |-> [lane EXCEPT
                                !.closedexits = Append(@, i),
                                !.openexits = ListRemove(@, i)],
                   frog |-> f, ret |-> TRUE]
             ELSE IF hit /\ key = "down"
                  THEN checkReachedExitFrom_NoMarker(
                          lane, [f EXCEPT !.y = @ + GRID_SIZE], key, point, i + 1)
                  ELSE checkReachedExitFrom_NoMarker(lane, f, key, point, i + 1)

\* _checkReachedExit that never takes the exit out of _openexits
RECURSIVE checkReachedExitFrom_KeepsOpen(_, _, _, _, _)
checkReachedExitFrom_KeepsOpen(lane, f, key, point, i) ==
    IF i > Len(lane.objs)
    THEN [lane |-> lane, frog |-> f, ret |-> FALSE]
    ELSE LET obj == lane.objs[i]
             hit == contains(obj, point) /\ InList(i, lane.openexits)
         IN  IF hit /\ ~(key = "down")
             THEN [lane |-> [lane EXCEPT
                                !.safefrogs = Append(@, <<obj.x, obj.y>>),
                                !.closedexits = Append(@, i)],
                   frog |-> f, ret |-> TRUE]
             ELSE IF hit /\ key = "down"
                  THEN checkReachedExitFrom_KeepsOpen(
                          lane, [f EXCEPT !.y = @ + GRID_SIZE], key, point, i + 1)
                  ELSE checkReachedExitFrom_KeepsOpen(lane, f, key, point, i + 1)

\* the loop of Hedge._checkReachedExit from object i on; point is the frog's
\* centre when the method was entered.  Result: lane, frog and inExit.
RECURSIVE checkReachedExitFrom(_, _, _, _, _)
checkReachedExitFrom(lane, f, key, point, i) ==
    IF i > Len(lane.objs)
    THEN [lane |-> lane, frog |-> f, ret |-> FALSE]
    ELSE LET obj == lane.objs[i]
             hit == contains(obj, point) /\ InList(i, lane.openexits)
         IN  IF hit /\ ~(key = "down")
             THEN [lane |-> [lane EXCEPT
                                !.safefrogs = Append(@, <<obj.x, obj.y>>),
                                !.closedexits = Append(@, i),
                                !.openexits = ListRemove(@, i)],
                   frog |-> f, ret |-> TRUE]
             ELSE IF hit /\ key = "down"
                  THEN checkReachedExitFrom(lane, [f EXCEPT !.y = @ + GRID_SIZE],
                                            key, point, i + 1)
                  ELSE checkReachedExitFrom(lane, f, key, point, i + 1)

\* Hedge.getReachedExit(frog, key) = _checkReachedExit, then _reachedExit
getReachedExit(lane, f, key) ==
    checkReachedExitFrom(lane, f, key, <<f.x, f.y>>, 1)

\* isHedgeFull that reports full as soon as one exit is closed
isHedgeFull_AnyClosed(lane) == lane.closedexits # <<>>

\* Hedge.isHedgeFull() = _exitsFull
isHedgeFull(lane) == lane.openexits = <<>>

-----------------------------------------------------------------------------
(* models.py: the Frog and its slide coroutine *)

Abs(n) == IF n < 0 THEN -n ELSE n

\* Python's round() of the fraction num/den (den > 0): to the nearest integer,
\* a tie going to the even one
PyRound(num, den) ==
    LET q == num \div den
        r == num - q * den
    IN  IF 2 * r < den THEN q
        ELSE IF 2 * r > den THEN q + 1
        ELSE IF q % 2 = 0 THEN q ELSE q + 1

\* no coroutine: Level._animator is None
NoAnimator ==
    [active |-> FALSE, direction |-> "none", initial_x |-> 0, initial_y |-> 0,
     final_x |-> 0, final_y |-> 0, fed |-> 0]

\* Frog._determineFinalX(direction)
determineFinalX(f, direction) ==
    IF direction = "left" THEN f.x - GRID_SIZE
    ELSE IF direction = "right" THEN f.x + GRID_SIZE
    ELSE f.x

\* Frog._determineFinalY(direction)
determineFinalY(f, direction) ==
    IF direction = "up" THEN f.y + GRID_SIZE
    ELSE IF direction = "down" THEN f.y - GRID_SIZE
    ELSE f.y

\* Frog.animateSlide(dt, direction) run by next() up to its first yield: the
\* locals of the suspended coroutine.  fed is not in the code: it adds up the
\* dt values sent to the coroutine (it stops counting at FROG_SPEED).
animateSlide(f, direction) ==
    [active |-> TRUE, direction |-> direction,
     initial_x |-> f.x, initial_y |-> f.y,
     final_x |-> determineFinalX(f, direction),
     final_y |-> determineFinalY(f, direction),
     fed |-> 0]

\* the value given to round() by _determineXFrame / _determineYFrame, as the
\* fraction <<num, den>>: frac = 2*(pos - initial)/(final - initial)
FrameFraction(pos, initial, final) ==
    LET den == Abs(final - initial)
        num == IF final - initial > 0 THEN 2 * (pos - initial)
               ELSE -2 * (pos - initial)
    IN  IF num < den
        THEN <<(FROG_STRETCHED - FROG_REST) * num + FROG_REST * den, den>>
        ELSE <<FROG_STRETCHED * den + (num - den) * (FROG_REST - FROG_STRETCHED), den>>

\* Frog._determineXFrame: the frame it assigns (the present one if it assigns none)
determineXFrame(f, initial_x, final_x, direction) ==
    IF final_x - initial_x # 0 /\ direction \in {"right", "left"}
    THEN LET fr == FrameFraction(f.x, initial_x, final_x)
         IN  PyRound(fr[1], fr[2])
    ELSE f.frame

\* Frog._determineYFrame
determineYFrame(f, initial_y, final_y, direction) ==
    IF final_y - initial_y # 0 /\ direction \in {"up", "down"}
    THEN LET fr == FrameFraction(f.y, initial_y, final_y)
         IN  PyRound(fr[1], fr[2])
    ELSE f.frame

\* GSprite.count
FrameCount == Hitboxes.sprites.frog.format[1] * Hitboxes.sprites.frog.format[2]

\* the frame setter of GSprite: its assertion on the range
FrameOk(value) == value >= 0 /\ value < FrameCount

\* the slide's displacement for dt: steps*dt, steps = (final - initial)/FROG_SPEED
SlideAmount(initial, final, dt) == ((final - initial) * dt) \div FROG_SPEED

\* slideSend that ends the slide only when the frog has gone past the cell
slideSend_PastOnly(f, a, dt) ==
    LET moved == IF a.final_y = a.initial_y
                 THEN [f EXCEPT !.x = @ + SlideAmount(a.initial_x, a.final_x, dt)]
                 ELSE [f EXCEPT !.y = @ + SlideAmount(a.initial_y, a.final_y, dt)]
        done == IF a.final_y = a.initial_y
                THEN Abs(moved.x - a.initial_x) > GRID_SIZE
                ELSE Abs(moved.y - a.initial_y) > GRID_SIZE
        placed == IF ~done THEN moved
                  ELSE IF a.final_y = a.initial_y THEN [moved EXCEPT !.x = a.final_x]
                  ELSE [moved EXCEPT !.y = a.final_y]
        fed == IF a.fed + dt >= FROG_SPEED THEN FROG_SPEED ELSE a.fed + dt
    IN  [frog |-> [placed EXCEPT !.frame = FROG_REST],
         animator |-> IF done THEN NoAnimator ELSE [a EXCEPT !.fed = fed],
         err |-> "none"]

\* send(dt) with a frame setter that takes any value
slideSend_AnyFrame(f, a, dt) ==
    LET horizontal == a.final_y = a.initial_y
        moved == IF horizontal
                 THEN [f EXCEPT !.x = @ + SlideAmount(a.initial_x, a.final_x, dt)]
                 ELSE [f EXCEPT !.y = @ + SlideAmount(a.initial_y, a.final_y, dt)]
        done == IF horizontal
                THEN Abs(moved.x - a.initial_x) >= GRID_SIZE
                ELSE Abs(moved.y - a.initial_y) >= GRID_SIZE
        placed == IF ~done THEN moved
                  ELSE IF horizontal THEN [moved EXCEPT !.x = a.final_x]
                  ELSE [moved EXCEPT !.y = a.final_y]
        value == IF horizontal
                 THEN determineXFrame(placed, a.initial_x, a.final_x, a.direction)
                 ELSE determineYFrame(placed, a.initial_y, a.final_y, a.direction)
        fed == IF a.fed + dt >= FROG_SPEED THEN FROG_SPEED ELSE a.fed + dt
    IN  [frog |-> [placed EXCEPT !.frame = value],
         animator |-> IF done THEN NoAnimator ELSE [a EXCEPT !.fed = fed],
         err |-> "none"]

\* One send(dt) to the coroutine of animateSlide.  Result: the frog, the
\* coroutine (inactive once it has returned: StopIteration) and the exception
\* the frame setter raised, if any.
slideSend(f, a, dt) ==
    LET horizontal == a.final_y = a.initial_y
        moved == IF horizontal
                 THEN [f EXCEPT !.x = @ + SlideAmount(a.initial_x, a.final_x, dt)]
                 ELSE [f EXCEPT !.y = @ + SlideAmount(a.initial_y, a.final_y, dt)]
        done == IF horizontal
                THEN Abs(moved.x - a.initial_x) >= GRID_SIZE
                ELSE Abs(moved.y - a.initial_y) >= GRID_SIZE
        placed == IF ~done THEN moved
                  ELSE IF horizontal THEN [moved EXCEPT !.x = a.final_x]
                  ELSE [moved EXCEPT !.y = a.final_y]
        value == IF horizontal
                 THEN determineXFrame(placed, a.initial_x, a.final_x, a.direction)
                 ELSE determineYFrame(placed, a.initial_y, a.final_y, a.direction)
        fed == IF a.fed + dt >= FROG_SPEED THEN FROG_SPEED ELSE a.fed + dt
    IN  IF ~FrameOk(value)
        THEN [frog |-> placed, animator |-> [a EXCEPT !.fed = fed],
              err |-> "AssertionError"]
        ELSE [frog |-> [placed EXCEPT !.frame = value],
              animator |-> IF done THEN NoAnimator ELSE [a EXCEPT !.fed = fed],
              err |-> "none"]

-----------------------------------------------------------------------------
(* level.py: Level.  A world w is the record [frog, lanes, lv, err] of the   *)
(* Level object's state; every method is an operator from worlds to worlds. *)

getLevelWidth(w) == w.lv.level_dict.size[1]

getLevelHeight(w) == w.lv.level_dict.size[2]

\* Frog.__init__(x, y, hitbox_dict)
NewFrog(x, y) ==
    [x |-> ((2 * x + 1) * GRID_SIZE) \div 2,
     y |-> ((2 * y + 1) * GRID_SIZE) \div 2,
     angle |-> FROG_NORTH, frame |-> FROG_REST, visible |-> TRUE]

\* Level._displayLives: the list [life1, life2, life3]
displayLives == <<"life1", "life2", "life3">>

\* the lane types Level.__init__ has a branch for
KnownTypes == {"grass", "road", "water", "hedge"}

\* the lane of the descriptor that lane_obj was built from when the loop of
\* Level.__init__ appends for lane i: lane i itself if its type is known,
\* else the last lane of known type before it (lane_obj keeps that object);
\* 0 if there is none (lane_obj is unbound)
LaneObjSource(level_info, i) ==
    LET known == {k \in 1..i : level_info.lanes[k].type \in KnownTypes}
    IN  IF known = {} THEN 0 ELSE CHOOSE k \in known : \A m \in known : m <= k

\* Level.__init__(level_info, hitboxes).  A lane of unknown type takes no
\* branch of the if/elif chain: the append then reads lane_obj, which is
\* unbound in the first iteration (UnboundLocalError, no Level) and otherwise
\* still holds the lane built before, which is appended once more.
NewLevel(level_info, hitboxes) ==
    [frog |-> NewFrog(level_info.size[1] \div 2, 0),
     lanes |-> IF \E i \in 1..Len(level_info.lanes) : LaneObjSource(level_info, i) = 0
               THEN <<>>
               ELSE [i \in 1..Len(level_info.lanes) |->
                       LET k == LaneObjSource(level_info, i)
                       IN  NewLane(level_info, level_info.lanes[k],
                                   (k - 1) * GRID_SIZE, hitboxes)],
     lv |-> [level_dict |-> level_info,
             initial_x |-> level_info.size[1] \div 2,
             initial_y |-> 0,
             lives |-> displayLives,
             frogKilled |-> FALSE, gameOver |-> FALSE,
             inExit |-> FALSE, gameWon |-> FALSE,
             animator |-> NoAnimator],
     err |-> IF \E i \in 1..Len(level_info.lanes) : LaneObjSource(level_info, i) = 0
             THEN "UnboundLocalError" ELSE "none"]

\* frogDies that forgets to set _gameOver when the last life goes
frogDies_NoGameOver(w) ==
    LET w1 == [w EXCEPT !.frog.visible = FALSE, !.lv.frogKilled = TRUE]
    IN  IF Len(w1.lv.lives) = 0
        THEN [w1 EXCEPT !.err = "IndexError"]
        ELSE [w1 EXCEPT !.lv.lives = SubSeq(@, 1, Len(@) - 1)]

\* Level._frogDies: del self._lives[-1] raises IndexError on the empty list
frogDies(w) ==
    LET w1 == [w EXCEPT !.frog.visible = FALSE, !.lv.frogKilled = TRUE]
    IN  IF Len(w1.lv.lives) = 0
        THEN [w1 EXCEPT !.err = "IndexError"]
        ELSE LET lives == SubSeq(w1.lv.lives, 1, Len(w1.lv.lives) - 1)
             IN  [w1 EXCEPT !.lv.lives = lives,
                            !.lv.gameOver = IF lives = <<>> THEN TRUE ELSE @]

\* _checkDeath that only looks at the horizontal bounds
checkDeath_BoundsOnly(w) ==
    \/ w.frog.x > getLevelWidth(w) * GRID_SIZE
    \/ w.frog.x < 0

\* _checkDeath that only looks at the Water lanes
checkDeath_WaterOnly(w) ==
    \E i \in 1..Len(w.lanes) :
        w.lanes[i].type = "water" /\ frogDrowned(w.lanes[i], w.frog)

\* Level._checkDeath
checkDeath(w) ==
    \/ \E i \in 1..Len(w.lanes) :
          w.lanes[i].type = "water" /\ frogDrowned(w.lanes[i], w.frog)
    \/ w.frog.x > getLevelWidth(w) * GRID_SIZE
    \/ w.frog.x < 0

\* Level._goingToHedge(key): decided by the first Hedge lane whose tile
\* contains the destination point
goingToHedge(w, key) ==
    LET point == NextPoint(w.frog, key)
        hit == {i \in 1..Len(w.lanes) :
                   w.lanes[i].type = "hedge" /\ contains(w.lanes[i].tile, point)}
    IN  IF hit = {} THEN FALSE
        ELSE LET i == CHOOSE j \in hit : \A k \in hit : j <= k
             IN  ~(goingToObstacle(w.lanes[i], key, w.frog)
                   \/ willReachExit(w.lanes[i], w.frog, key))

\* the end of the four key helpers: if self._checkDeath(): self._frogDies()
DeathCheck(w) == IF checkDeath(w) THEN frogDies(w) ELSE w

\* _leftKey without the test on the destination
leftKey_NoBound(w, dt) ==
    LET w1 == [w EXCEPT !.frog.angle = FROG_WEST]
    IN  IF goingToHedge(w1, "left") THEN w1
        ELSE DeathCheck([w1 EXCEPT !.lv.animator = animateSlide(w1.frog, "left")])

\* Level._leftKey(dt)
leftKey(w, dt) ==
    LET w1 == [w EXCEPT !.frog.angle = FROG_WEST]
    IN  IF goingToHedge(w1, "left") THEN w1
        ELSE LET final_x == w1.frog.x - GRID_SIZE
             IN  DeathCheck(IF final_x > 0
                            THEN [w1 EXCEPT !.lv.animator = animateSlide(w1.frog, "left")]
                            ELSE w1)

\* Level._rightKey(dt)
rightKey(w, dt) ==
    LET w1 == [w EXCEPT !.frog.angle = FROG_EAST]
    IN  IF goingToHedge(w1, "right") THEN w1
        ELSE LET final_x == w1.frog.x + GRID_SIZE
             IN  DeathCheck(IF final_x < getLevelWidth(w1) * GRID_SIZE
                            THEN [w1 EXCEPT !.lv.animator = animateSlide(w1.frog, "right")]
                            ELSE w1)

\* _upKey that turns the frog only when the move is not blocked
upKey_TurnsOnlyIfFree(w, dt) ==
    IF goingToHedge(w, "up") THEN w
    ELSE LET w1 == [w EXCEPT !.frog.angle = FROG_NORTH]
             final_y == w1.frog.y + GRID_SIZE
         IN  DeathCheck(IF final_y < getLevelHeight(w1) * GRID_SIZE
                        THEN [w1 EXCEPT !.lv.animator = animateSlide(w1.frog, "up")]
                        ELSE w1)

\* Level._upKey(dt)
upKey(w, dt) ==
    LET w1 == [w EXCEPT !.frog.angle = FROG_NORTH]
    IN  IF goingToHedge(w1, "up") THEN w1
        ELSE LET final_y == w1.frog.y + GRID_SIZE
             IN  DeathCheck(IF final_y < getLevelHeight(w1) * GRID_SIZE
                            THEN [w1 EXCEPT !.lv.animator = animateSlide(w1.frog, "up")]
                            ELSE w1)

\* Level._downKey(dt).  Its condition reads
\*     final_y > 0 and not self.isInExit(key) and not self._frogInHedge()
\* and no name 'key' is bound in _downKey or in the module, so evaluating
\* the second operand raises NameError whenever final_y > 0.
downKey(w, dt) ==
    LET w1 == [w EXCEPT !.frog.angle = FROG_SOUTH]
    IN  IF goingToHedge(w1, "down") THEN w1
        ELSE LET final_y == w1.frog.y - GRID_SIZE
             IN  IF final_y > 0
                 THEN [w1 EXCEPT !.err = "NameError"]
                 ELSE DeathCheck(w1)

\* Level._moveFrogOnLog(dt), lane by lane from lane i on
RECURSIVE moveFrogOnLogFrom(_, _, _)
moveFrogOnLogFrom(w, dt, i) ==
    IF i > Len(w.lanes) THEN w
    ELSE IF w.lanes[i].type = "water" /\ frogOnLog(w.lanes[i], w.frog)
         THEN moveFrogOnLogFrom(
                 [w EXCEPT !.frog.x = @ + Travel(w.lanes[i].lane_speed, dt)], dt, i + 1)
         ELSE moveFrogOnLogFrom(w, dt, i + 1)

moveFrogOnLog(w, dt) == moveFrogOnLogFrom(w, dt, 1)

\* the first part of update that turns the frog to the key while it slides
FrogStep_TurnsWhileSliding(w, dt, key) ==
    IF w.lv.animator.active
    THEN LET s == slideSend(w.frog, w.lv.animator, dt)
         IN  [w EXCEPT !.frog = IF key \in {"left", "right", "up", "down"}
                                THEN [s.frog EXCEPT !.angle =
                                        CASE key = "up" -> FROG_NORTH
                                          [] key = "down" -> FROG_SOUTH
                                          [] key = "left" -> FROG_WEST
                                          [] key = "right" -> FROG_EAST]
                                ELSE s.frog,
                        !.lv.animator = s.animator, !.err = s.err]
    ELSE CASE key = "left" -> leftKey(w, dt)
           [] key = "right" -> rightKey(w, dt)
           [] key = "up" -> upKey(w, dt)
           [] key = "down" -> downKey(w, dt)
           [] OTHER -> DeathCheck(w)

\* the first part of Level.update: advance the coroutine, or handle the key
FrogStep(w, dt, key) ==
    IF w.lv.animator.active
    THEN LET s == slideSend(w.frog, w.lv.animator, dt)
         IN  [w EXCEPT !.frog = s.frog, !.lv.animator = s.animator, !.err = s.err]
    ELSE CASE key = "left" -> leftKey(w, dt)
           [] key = "right" -> rightKey(w, dt)
           [] key = "up" -> upKey(w, dt)
           [] key = "down" -> downKey(w, dt)
           [] OTHER -> DeathCheck(w)

\* update that carries the frog before it moves the lanes
update_CarryBeforeLanes(w, dt, key) ==
    LET w1 == FrogStep(w, dt, key)
        w2 == IF w1.err # "none" THEN w1 ELSE moveFrogOnLog(w1, dt)
    IN  IF w1.err # "none" THEN w1
        ELSE [w2 EXCEPT !.lanes = [i \in 1..Len(w2.lanes) |-> laneUpdate(w2.lanes[i], dt)]]

\* Level.update(dt, key): an exception of the first part leaves the method
\* before the lanes are updated
update(w, dt, key) ==
    LET w1 == FrogStep(w, dt, key)
    IN  IF w1.err # "none" THEN w1
        ELSE moveFrogOnLog(
                [w1 EXCEPT !.lanes = [i \in 1..Len(w1.lanes) |-> laneUpdate(w1.lanes[i], dt)]],
                dt)

\* Level._checkFrogKilled, the loop over the lanes from lane i on (entered
\* only when the frog is visible)
RECURSIVE checkFrogKilledFrom(_, _)
checkFrogKilledFrom(w, i) ==
    IF i > Len(w.lanes) THEN w
    ELSE IF w.lanes[i].type = "road"
         THEN LET g == getCarCollided(w.lanes[i], w.frog)
                  w1 == [w EXCEPT !.lanes[i] = g.lane]
              IN  IF g.ret THEN frogDies(w1) ELSE checkFrogKilledFrom(w1, i + 1)
         ELSE checkFrogKilledFrom(w, i + 1)

\* checkFrogKilled that looks for cars only when no slide is in progress
checkFrogKilled_AtRestOnly(w) ==
    IF w.frog.visible /\ ~w.lv.animator.active THEN checkFrogKilledFrom(w, 1) ELSE w

checkFrogKilled(w) == IF w.frog.visible THEN checkFrogKilledFrom(w, 1) ELSE w

\* isFrogKilled that reports only a kill made by this very call
isFrogKilled_ThisCallOnly(w) ==
    LET w1 == checkFrogKilled(w)
    IN  [w |-> w1, ret |-> ~w.lv.frogKilled /\ w1.lv.frogKilled]

\* Level.isFrogKilled(): the world after the call and the value returned
isFrogKilled(w) ==
    LET w1 == checkFrogKilled(w)
    IN  [w |-> w1, ret |-> w1.lv.frogKilled]

\* Level._frogInOpenExit(key), the loop over the lanes from lane i on
RECURSIVE frogInOpenExitFrom(_, _, _)
frogInOpenExitFrom(w, key, i) ==
    IF i > Len(w.lanes) THEN [w EXCEPT !.lv.inExit = FALSE]
    ELSE IF w.lanes[i].type = "hedge"
         THEN LET g == getReachedExit(w.lanes[i], w.frog, key)
                  w1 == [w EXCEPT !.lanes[i] = g.lane, !.frog = g.frog]
              IN  IF g.ret
                  THEN [w1 EXCEPT !.frog.visible = FALSE, !.lv.inExit = TRUE]
                  ELSE frogInOpenExitFrom(w1, key, i + 1)
         ELSE frogInOpenExitFrom(w, key, i + 1)

\* Level.isInExit(key)
isInExit(w, key) ==
    LET w1 == frogInOpenExitFrom(w, key, 1)
    IN  [w |-> w1, ret |-> w1.lv.inExit]

\* _checkWin that asks for at least one Hedge lane
checkWin_NeedsHedge(w) ==
    LET hedges == Cardinality({i \in 1..Len(w.lanes) : w.lanes[i].type = "hedge"})
        full_hedges == Cardinality({i \in 1..Len(w.lanes) :
                          w.lanes[i].type = "hedge" /\ isHedgeFull(w.lanes[i])})
    IN  [w EXCEPT !.lv.gameWon = (hedges > 0 /\ hedges = full_hedges)]

\* Level._checkWin
checkWin(w) ==
    LET hedges == Cardinality({i \in 1..Len(w.lanes) : w.lanes[i].type = "hedge"})
        full_hedges == Cardinality({i \in 1..Len(w.lanes) :
                          w.lanes[i].type = "hedge" /\ isHedgeFull(w.lanes[i])})
    IN  [w EXCEPT !.lv.gameWon = (hedges = full_hedges)]

\* Level.isGameWon()
isGameWon(w) ==
    LET w1 == checkWin(w)
    IN  [w |-> w1, ret |-> w1.lv.gameWon]

\* Level.isGameOver()
isGameOver(w) == w.lv.gameOver

\* setInitialFrog that leaves the slide in progress in place
setInitialFrog_KeepsSlide(w) ==
    [w EXCEPT !.frog.y = ((2 * w.lv.initial_y + 1) * GRID_SIZE) \div 2,
              !.frog.x = ((2 * w.lv.initial_x + 1) * GRID_SIZE) \div 2,
              !.frog.visible = TRUE,
              !.lv.frogKilled = FALSE,
              !.frog.frame = FROG_REST]

\* Level.setInitialFrog()
setInitialFrog(w) ==
    [w EXCEPT !.frog.y = ((2 * w.lv.initial_y + 1) * GRID_SIZE) \div 2,
              !.frog.x = ((2 * w.lv.initial_x + 1) * GRID_SIZE) \div 2,
              !.frog.visible = TRUE,
              !.lv.frogKilled = FALSE,
              !.lv.animator = NoAnimator,
              !.frog.frame = FROG_REST]

-----------------------------------------------------------------------------
(* app.py: Froggit, the application loop.  One frame of STATE_ACTIVE is      *)
(* _animateActive; it is taken one Level call at a time, app.pc being the    *)
(* call that has just returned.                                              *)

\* the Level object as a world
Cur == [frog |-> frog, lanes |-> lanes, lv |-> lv, err |-> err]

\* the next state of the Level object is the world w
Becomes(w) ==
    /\ frog' = w.frog
    /\ lanes' = w.lanes
    /\ lv' = w.lv
    /\ err' = w.err

\* Froggit._level is None: the Level variables hold no level
NoLevel ==
    [frog |-> [x |-> 0, y |-> 0, angle |-> 0, frame |-> 0, visible |-> FALSE],
     lanes |-> <<>>,
     lv |-> [level_dict |-> [size |-> <<0, 0>>, offscreen |-> 0, lanes |-> <<>>],
             initial_x |-> 0, initial_y |-> 0,
             lives |-> <<>>,
             frogKilled |-> FALSE, gameOver |-> FALSE,
             inExit |-> FALSE, gameWon |-> FALSE,
             animator |-> NoAnimator],
     err |-> "none"]

\* Froggit.start()
Init ==
    /\ app = [state |-> STATE_INACTIVE, lastkeys |-> 0, level |-> "None",
              pc |-> "frame", key |-> "none", ret |-> FALSE]
    /\ frog = NoLevel.frog
    /\ lanes = NoLevel.lanes
    /\ lv = NoLevel.lv
    /\ err = "none"

\* a frame can run: no exception has ended the program
Running(state) == err = "none" /\ app.state = state

\* Froggit._animateInactive
animateInactive ==
    /\ Running(STATE_INACTIVE)
    /\ \E s_pressed \in BOOLEAN :
          app' = [app EXCEPT
                    !.state = IF s_pressed /\ app.lastkeys = 0 THEN STATE_LOADING ELSE @,
                    !.lastkeys = IF s_pressed THEN 1 ELSE @]
    /\ UNCHANGED <<frog, lanes, lv, err>>

\* Froggit._animateLoading
animateLoading ==
    /\ Running(STATE_LOADING)
    /\ \E level_dict \in LevelFiles : Becomes(NewLevel(level_dict, Hitboxes))
    /\ app' = IF err' = "none"
              THEN [app EXCEPT !.level = "Level", !.state = STATE_ACTIVE]
              ELSE app

\* _animateActive, first call: the key is read, then self._level.isFrogKilled()
activeIsFrogKilled ==
    /\ Running(STATE_ACTIVE) /\ app.pc = "frame"
    /\ \E key \in Keys :
          LET r == isFrogKilled(Cur)
          IN  /\ Becomes(r.w)
              /\ app' = [app EXCEPT !.pc = "isFrogKilled", !.key = key, !.ret = r.ret]

\* the frame is over: the locals key and ret are gone
EndFrame(state) ==
    app' = [app EXCEPT !.state = state, !.pc = "frame", !.key = "none", !.ret = FALSE,
                       !.lastkeys = IF state = STATE_PAUSED THEN 0 ELSE @]

\* if self._level.isFrogKilled() and not self._level.isGameOver(): pause
activePauseKilled ==
    /\ Running(STATE_ACTIVE) /\ app.pc = "isFrogKilled"
    /\ app.ret /\ ~isGameOver(Cur)
    /\ EndFrame(STATE_PAUSED)
    /\ UNCHANGED <<frog, lanes, lv, err>>

\* elif self._level.isInExit(key) ...: the call
activeIsInExit ==
    /\ Running(STATE_ACTIVE) /\ app.pc = "isFrogKilled"
    /\ ~(app.ret /\ ~isGameOver(Cur))
    /\ LET r == isInExit(Cur, app.key)
       IN  /\ Becomes(r.w)
           /\ app' = [app EXCEPT !.pc = "isInExit", !.ret = r.ret]

\* ... and not self._level.isGameWon(): isGameWon is called only when
\* isInExit returned True
AfterExitWon == IF app.ret THEN isGameWon(Cur) ELSE [w |-> Cur, ret |-> FALSE]

\* the frog reached an exit and exits remain: pause
activePauseExit ==
    /\ Running(STATE_ACTIVE) /\ app.pc = "isInExit"
    /\ app.ret /\ ~AfterExitWon.ret
    /\ Becomes(AfterExitWon.w)
    /\ EndFrame(STATE_PAUSED)

\* elif self._level.isGameOver() or self._level.isGameWon(): the second
\* operand is evaluated only when the game is not over
OverOrWon ==
    LET w == AfterExitWon.w
    IN  IF isGameOver(w) THEN [w |-> w, ret |-> TRUE] ELSE isGameWon(w)

\* the game-over / game-won branch that pauses instead of completing
activeComplete_Pauses ==
    /\ Running(STATE_ACTIVE) /\ app.pc = "isInExit"
    /\ ~(app.ret /\ ~AfterExitWon.ret)
    /\ OverOrWon.ret
    /\ Becomes(OverOrWon.w)
    /\ EndFrame(STATE_PAUSED)

activeComplete ==
    /\ Running(STATE_ACTIVE) /\ app.pc = "isInExit"
    /\ ~(app.ret /\ ~AfterExitWon.ret)
    /\ OverOrWon.ret
    /\ Becomes(OverOrWon.w)
    /\ EndFrame(STATE_COMPLETE)

\* else: self._level.update(dt, key)
activeUpdate ==
    /\ Running(STATE_ACTIVE) /\ app.pc = "isInExit"
    /\ ~(app.ret /\ ~AfterExitWon.ret)
    /\ ~OverOrWon.ret
    /\ \E dt \in DtSet : Becomes(update(OverOrWon.w, dt, app.key))
    /\ EndFrame(STATE_ACTIVE)

\* _animatePaused that lets the level run on
animatePaused_Updates ==
    /\ Running(STATE_PAUSED)
    /\ \E c_pressed \in BOOLEAN :
          app' = [app EXCEPT
                    !.state = IF c_pressed /\ app.lastkeys = 0 THEN STATE_CONTINUE ELSE @,
                    !.lastkeys = IF c_pressed THEN 1 ELSE @]
    /\ \E dt \in DtSet : Becomes(update(Cur, dt, "none"))

\* Froggit._animatePaused
animatePaused ==
    /\ Running(STATE_PAUSED)
    /\ \E c_pressed \in BOOLEAN :
          app' = [app EXCEPT
                    !.state = IF c_pressed /\ app.lastkeys = 0 THEN STATE_CONTINUE ELSE @,
                    !.lastkeys = IF c_pressed THEN 1 ELSE @]
    /\ UNCHANGED <<frog, lanes, lv, err>>

\* _animateContinue that goes back to STATE_ACTIVE without a new frog
animateContinue_NoReset ==
    /\ Running(STATE_CONTINUE)
    /\ app' = [app EXCEPT !.state = STATE_ACTIVE]
    /\ UNCHANGED <<frog, lanes, lv, err>>

\* Froggit._animateContinue
animateContinue ==
    /\ Running(STATE_CONTINUE)
    /\ Becomes(setInitialFrog(Cur))
    /\ app' = [app EXCEPT !.state = STATE_ACTIVE]

\* Froggit._animateComplete: isGameWon() is called when the game is not over
animateComplete ==
    /\ Running(STATE_COMPLETE)
    /\ Becomes(IF isGameOver(Cur) THEN Cur ELSE isGameWon(Cur).w)
    /\ UNCHANGED app

\* Froggit.update(dt): one helper per state
Next ==
    \/ animateInactive
    \/ animateLoading
    \/ activeIsFrogKilled
    \/ activePauseKilled
    \/ activeIsInExit
    \/ activePauseExit
    \/ activeComplete
    \/ activeUpdate
    \/ animatePaused
    \/ animateContinue
    \/ animateComplete

Spec == Init /\ [][Next]_vars

-----------------------------------------------------------------------------
(* Properties *)

\* a Level has been constructed
Loaded == app.level = "Level"

\* the next thing the program does is call isFrogKilled()
AtIsFrogKilled == Running(STATE_ACTIVE) /\ app.pc = "frame"

\* the hitbox of the frog overlaps the hitbox of a car of lane i
LaneCarOverlap(i) ==
    \E j \in 1..Len(lanes[i].objs) :
        LET c == bbox(lanes[i].objs[j])
            f == bbox(FrogShape(frog))
        IN  /\ c.l <= f.r /\ f.l <= c.r
            /\ c.b <= f.t /\ f.b <= c.t

\* the hitbox of the frog overlaps the hitbox of a car of some Road lane
CarOverlap ==
    \E i \in 1..Len(lanes) : lanes[i].type = "road" /\ LaneCarOverlap(i)

\* C1: when the frog is visible and its hitbox overlaps a car's, at rest or
\* in the middle of a slide, the isFrogKilled() call that follows returns
\* True, takes exactly one life and hides the frog.
C1_CarKills ==
    [][(AtIsFrogKilled /\ frog.visible /\ CarOverlap)
        => /\ app'.pc = "isFrogKilled" /\ app'.ret = TRUE
           /\ err' = "none"
           /\ Len(lv'.lives) = Len(lv.lives) - 1
           /\ ~frog'.visible]_vars

\* C1 witness: isFrogKilled() has just killed a frog that a car hit in the
\* middle of a slide
C1_Witness ==
    /\ app.pc = "isFrogKilled" /\ app.ret /\ ~frog.visible
    /\ lv.animator.active /\ CarOverlap
    /\ Len(lv.lives) < Len(displayLives)

\* C2: isGameOver() is True exactly when no life is left; a Level starts
\* with 3 lives and their number never grows.
C2_GameOverIffNoLives ==
    /\ [](Loaded => (isGameOver(Cur) <=> Len(lv.lives) = 0))
    /\ [][(~Loaded /\ Loaded') => Len(lv'.lives) = 3]_vars
    /\ [][Loaded => Len(lv'.lives) <= Len(lv.lives)]_vars

\* C2 witness: the last life has been lost
C2_Witness == Loaded /\ isGameOver(Cur) /\ Len(lv.lives) = 0

\* C3 as claimed: isFrogKilled() returns True exactly when the frog is
\* visible at the call and a Road lane reports a collision, so it returns
\* False after a life lost by drowning or by leaving the horizontal bounds.
C3_Original ==
    [][(AtIsFrogKilled /\ err' = "none")
        => (app'.ret <=> (frog.visible /\ CarOverlap))]_vars

\* C3 amended: isFrogKilled() returns True exactly when the killed flag was
\* already set (a life lost by a car, by drowning or by leaving the bounds,
\* and no setInitialFrog since) or the frog is visible and a Road lane
\* reports a collision.
C3_KilledFlag ==
    [][(AtIsFrogKilled /\ err' = "none")
        => (app'.ret <=> (lv.frogKilled \/ (frog.visible /\ CarOverlap)))]_vars

\* C3 witness: isFrogKilled() returned True for a frog no car has hit
C3_Witness ==
    /\ app.pc = "isFrogKilled" /\ app.ret /\ ~CarOverlap
    /\ \A i \in 1..Len(lanes) : ~lanes[i].carCollided

\* C4 as claimed: Road.getCarCollided(frog) is True exactly when the frog is
\* visible and its hitbox overlaps a car of the lane, whatever was returned
\* before.
C4_Original ==
    Loaded =>
        \A i \in 1..Len(lanes) :
            lanes[i].type = "road" =>
                (getCarCollided(lanes[i], frog).ret <=> (frog.visible /\ LaneCarOverlap(i)))

\* C5 as claimed: no operation of the level ends in an exception.
C5_Original == err = "none"

\* the four direction keys
Directions == {"left", "right", "up", "down"}

\* the next thing the program does is call update(dt, key), and it does
AtUpdate ==
    /\ Running(STATE_ACTIVE) /\ app.pc = "isInExit"
    /\ app'.pc = "frame" /\ app'.state = STATE_ACTIVE

\* the cell next to the frog in direction key is inside the level
DestinationInLevel(key) ==
    LET p == NextPoint(frog, key)
    IN  /\ 0 < p[1] /\ p[1] < lv.level_dict.size[1] * GRID_SIZE
        /\ 0 < p[2] /\ p[2] < lv.level_dict.size[2] * GRID_SIZE

\* C6 as claimed: for each of the four directions, with no slide in progress,
\* the move not blocked by a hedge and the destination inside the level,
\* update(dt, key) begins a slide to the adjacent cell in that direction.
C6_Original ==
    [][(/\ AtUpdate /\ ~lv.animator.active
        /\ app.key \in Directions
        /\ ~goingToHedge(Cur, app.key)
        /\ DestinationInLevel(app.key))
        => /\ lv'.animator.active
           /\ lv'.animator.direction = app.key
           /\ <<lv'.animator.final_x, lv'.animator.final_y>> = NextPoint(frog, app.key)]_vars

\* the point is the centre of a grid cell
CellCentre(x, y) ==
    /\ (x - GRID_SIZE \div 2) % GRID_SIZE = 0
    /\ (y - GRID_SIZE \div 2) % GRID_SIZE = 0

\* an up slide that began at a cell centre is in progress
SlidingUp ==
    /\ lv.animator.active /\ lv.animator.direction = "up"
    /\ CellCentre(lv.animator.initial_x, lv.animator.initial_y)

\* the frog's centre is inside a log of a Water lane
OnLog(f, ls) ==
    \E i \in 1..Len(ls) :
        /\ ls[i].type = "water"
        /\ \E j \in 1..Len(ls[i].objs) :
              LET g == bbox(ls[i].objs[j])
              IN  g.l <= f.x /\ f.x <= g.r /\ g.b <= f.y /\ f.y <= g.t

DestinationInFixedObstacle(key) ==
    \E i \in 1..Len(lanes) :
        /\ lanes[i].type = "hedge"
        /\ \E j \in 1..Len(lanes[i].objs) :
              LET g == bbox(lanes[i].objs[j])
                  p == NextPoint(frog, key)
              IN  /\ g.l <= p[1] /\ p[1] <= g.r /\ g.b <= p[2] /\ p[2] <= g.t
                  /\ ~InList(j, lanes[i].openexits)

\* C8 as claimed: a move into a hedge-lane object that is not an open exit
\* (a closed exit included) is blocked: no slide starts, the frog stays
\* where it is (a log may still carry it) and no life is lost.
C8_Original ==
    [][(/\ AtUpdate /\ ~lv.animator.active
        /\ app.key \in Directions
        /\ DestinationInFixedObstacle(app.key))
        => /\ ~lv'.animator.active
           /\ frog'.y = frog.y
           /\ (frog'.x = frog.x \/ OnLog([frog' EXCEPT !.x = frog.x], lanes'))
           /\ lv'.lives = lv.lives]_vars

\* the next thing the program does is call isInExit(key)
AtIsInExit ==
    /\ Running(STATE_ACTIVE) /\ app.pc = "isFrogKilled"
    /\ ~(app.ret /\ ~lv.gameOver)

\* the frog's centre is inside object j of lane i
CentreInside(i, j) ==
    LET g == bbox(lanes[i].objs[j])
    IN  g.l <= frog.x /\ frog.x <= g.r /\ g.b <= frog.y /\ frog.y <= g.t

\* C9: when the frog's centre is inside an open exit and the key is not
\* down, isInExit(key) returns True, moves exactly that exit from the open
\* list to the closed list, records one safe-frog marker at the exit's
\* position, hides the frog and leaves the lives alone.
C9_ExitClaimed ==
    [][\A i \in 1..Len(lanes) : \A j \in 1..Len(lanes[i].objs) :
        (/\ AtIsInExit /\ lanes[i].type = "hedge"
         /\ InList(j, lanes[i].openexits) /\ CentreInside(i, j)
         /\ app.key # "down")
        => /\ app'.pc = "isInExit" /\ app'.ret = TRUE /\ err' = "none"
           /\ lanes'[i].openexits = SelectSeq(lanes[i].openexits, LAMBDA e : e # j)
           /\ lanes'[i].closedexits = Append(lanes[i].closedexits, j)
           /\ lanes'[i].safefrogs =
                 Append(lanes[i].safefrogs, <<lanes[i].objs[j].x, lanes[i].objs[j].y>>)
           /\ \A k \in 1..Len(lanes) : k # i => lanes'[k] = lanes[k]
           /\ ~frog'.visible
           /\ lv'.lives = lv.lives]_vars

\* C9 witness: isInExit has just returned True and closed an exit
C9_Witness ==
    /\ app.pc = "isInExit" /\ app.ret /\ ~frog.visible
    /\ \E i \in 1..Len(lanes) :
          /\ lanes[i].closedexits # <<>>
          /\ CentreInside(i, lanes[i].closedexits[Len(lanes[i].closedexits)])

\* the frog put at the point (x, y)
FrogAt(x, y) == [frog EXCEPT !.x = x, !.y = y]

\* the point one cell against direction key from (x, y): a frog there has
\* (x, y) as its destination
CellBefore(x, y, key) ==
    CASE key = "up" -> <<x, y - GRID_SIZE>>
      [] key = "down" -> <<x, y + GRID_SIZE>>
      [] key = "left" -> <<x + GRID_SIZE, y>>
      [] key = "right" -> <<x - GRID_SIZE, y>>

\* the centre and the four corners of the hitbox of a shape
ProbePoints(s) ==
    LET g == bbox(s)
    IN  {<<s.x, s.y>>, <<g.l, g.b>>, <<g.l, g.t>>, <<g.r, g.b>>, <<g.r, g.t>>}

\* C10: once an exit is closed, getReachedExit for a frog inside it and
\* willReachExit for a frog about to enter it return False for every key,
\* and getReachedExit changes no exit list.
C10_ClosedStaysClosed ==
    Loaded =>
        \A i \in 1..Len(lanes) :
            \A n \in 1..Len(lanes[i].closedexits) :
                LET obj == lanes[i].objs[lanes[i].closedexits[n]]
                IN  \A p \in ProbePoints(obj) \cup {<<frog.x, frog.y>>} :
                        (p[1] >= bbox(obj).l /\ p[1] <= bbox(obj).r
                         /\ p[2] >= bbox(obj).b /\ p[2] <= bbox(obj).t)
                        => /\ \A key \in Keys :
                                LET g == getReachedExit(lanes[i], FrogAt(p[1], p[2]), key)
                                IN  /\ g.ret = FALSE
                                    /\ g.lane.openexits = lanes[i].openexits
                                    /\ g.lane.closedexits = lanes[i].closedexits
                           /\ \A key \in Directions :
                                LET q == CellBefore(p[1], p[2], key)
                                IN  willReachExit(lanes[i], FrogAt(q[1], q[2]), key) = FALSE

\* C10 witness: an exit is closed and the frog of a later life stands in it
C10_Witness ==
    /\ Loaded /\ frog.visible
    /\ \E i \in 1..Len(lanes) : \E n \in 1..Len(lanes[i].closedexits) :
          CentreInside(i, lanes[i].closedexits[n])

\* the elements of a list
Elems(seq) == {seq[n] : n \in 1..Len(seq)}

\* the exit objects of lane i, as found when the lane was built
ExitsOf(i) == {j \in 1..Len(lanes[i].objs) : lanes[i].objs[j].source = "exit"}

\* C11: in every Hedge lane the open and the closed exit lists are disjoint,
\* hold no exit twice and together are exactly the exit objects found at
\* construction; the safe-frog markers are as many as the closed exits; an
\* exit only ever moves from open to closed.
C11_ExitPartition ==
    /\ [](\A i \in 1..Len(lanes) : lanes[i].type = "hedge" =>
            /\ Elems(lanes[i].openexits) \cap Elems(lanes[i].closedexits) = {}
            /\ Elems(lanes[i].openexits) \cup Elems(lanes[i].closedexits) = ExitsOf(i)
            /\ Cardinality(Elems(lanes[i].openexits)) = Len(lanes[i].openexits)
            /\ Cardinality(Elems(lanes[i].closedexits)) = Len(lanes[i].closedexits)
            /\ Len(lanes[i].safefrogs) = Len(lanes[i].closedexits))
    /\ [][Loaded => \A i \in 1..Len(lanes) :
            /\ Elems(lanes'[i].openexits) \subseteq Elems(lanes[i].openexits)
            /\ Elems(lanes[i].closedexits) \subseteq Elems(lanes'[i].closedexits)]_vars

\* C11 witness: a Hedge lane with one exit closed and another still open
C11_Witness ==
    \E i \in 1..Len(lanes) :
        /\ lanes[i].type = "hedge"
        /\ lanes[i].openexits # <<>> /\ lanes[i].closedexits # <<>>
        /\ Len(lanes[i].safefrogs) = 1

\* C12: isHedgeFull() is True exactly when the open-exit list is empty, and
\* once it is True for a Hedge lane it is True ever after.
C12_FullMonotone ==
    /\ [](\A i \in 1..Len(lanes) : lanes[i].type = "hedge" =>
            (isHedgeFull(lanes[i]) <=> Len(lanes[i].openexits) = 0))
    /\ [][Loaded => \A i \in 1..Len(lanes) : lanes[i].type = "hedge" =>
            (isHedgeFull(lanes[i]) => isHedgeFull(lanes'[i]))]_vars

\* C12 witness: a Hedge lane that had exits has become full
C12_Witness ==
    \E i \in 1..Len(lanes) :
        /\ lanes[i].type = "hedge" /\ isHedgeFull(lanes[i])
        /\ Len(lanes[i].closedexits) = Cardinality(ExitsOf(i))
        /\ ExitsOf(i) # {}

\* a level with no Hedge lane
LevelNoHedge ==
    [size |-> <<3, 2>>, offscreen |-> 1,
     lanes |-> << [type |-> "grass", speed |-> 0, objects |-> <<>>],
                  [type |-> "grass", speed |-> 0, objects |-> <<>>] >>]

\* a level whose only Hedge lane has no exit
LevelNoExit ==
    [size |-> <<3, 2>>, offscreen |-> 1,
     lanes |-> << [type |-> "grass", speed |-> 0, objects |-> <<>>],
                  [type |-> "hedge", speed |-> 0, objects |-> <<>>] >>]

\* a level with a single Hedge lane holding exactly one exit, above the
\* starting cell
LevelOneExit ==
    [size |-> <<3, 2>>, offscreen |-> 1,
     lanes |-> << [type |-> "grass", speed |-> 0, objects |-> <<>>],
                  [type |-> "hedge", speed |-> 0,
                   objects |-> << [type |-> "exit", position |-> 1] >>] >>]

\* the level of LevelOneExit with the frog standing in its exit
InTheOneExit ==
    LET w == NewLevel(LevelOneExit, Hitboxes)
    IN  [w EXCEPT !.frog.y = w.lanes[2].objs[1].y, !.frog.x = w.lanes[2].objs[1].x]

\* C13: isGameWon() is True exactly when every Hedge lane is full; it is
\* True at once for a level with no Hedge lane or whose hedge has no exit,
\* and with a single hedge of one exit it is False before and True as soon
\* as that exit is closed.
C13_WonIffAllFull ==
    /\ Loaded => (isGameWon(Cur).ret <=>
                    \A i \in 1..Len(lanes) :
                        lanes[i].type = "hedge" => Len(lanes[i].openexits) = 0)
    /\ isGameWon(NewLevel(LevelNoHedge, Hitboxes)).ret
    /\ isGameWon(NewLevel(LevelNoExit, Hitboxes)).ret
    /\ ~isGameWon(InTheOneExit).ret
    /\ isInExit(InTheOneExit, "up").ret
    /\ isGameWon(isInExit(InTheOneExit, "up").w).ret

\* C13 witness: the last open exit has just been closed and the game is won
C13_Witness ==
    /\ Running(STATE_ACTIVE) /\ app.pc = "isInExit" /\ app.ret
    /\ isGameWon(Cur).ret
    /\ \E i \in 1..Len(lanes) : lanes[i].type = "hedge" /\ Len(lanes[i].closedexits) > 1

\* the point is within the tile of the lane, edges included
InTile(lane, x, y) ==
    LET g == bbox(lane.tile)
    IN  g.l <= x /\ x <= g.r /\ g.b <= y /\ y <= g.t

\* x coordinates to try in a lane: the two ends of the tile, the edges of
\* every obstacle's hitbox and the points just outside them
ProbeXs(lane) ==
    LET g == bbox(lane.tile)
        xs == {g.l, g.r}
              \cup UNION {{bbox(lane.objs[j]).l - 1, bbox(lane.objs[j]).l,
                           bbox(lane.objs[j]).r, bbox(lane.objs[j]).r + 1} :
                          j \in 1..Len(lane.objs)}
    IN  {x \in xs : g.l <= x /\ x <= g.r}

\* C14: for every frog whose centre lies within a Water lane's tile,
\* frogDrowned(frog) is True exactly when frogOnLog(frog) is False: for the
\* frog where it is, and for the same frog moved along the lane to the ends
\* of the tile and to either side of each edge of a log.
C14_DrownedIffNotOnLog ==
    \A i \in 1..Len(lanes) :
        (lanes[i].type = "water" /\ InTile(lanes[i], frog.x, frog.y)) =>
            \A x \in ProbeXs(lanes[i]) \cup {frog.x} :
                LET f == [frog EXCEPT !.x = x]
                IN  frogDrowned(lanes[i], f) <=> ~frogOnLog(lanes[i], f)

\* C14 witness: the frog's centre is in a Water lane and off every log
C14_Witness ==
    /\ Loaded /\ frog.visible
    /\ \E i \in 1..Len(lanes) :
          /\ lanes[i].type = "water" /\ InTile(lanes[i], frog.x, frog.y)
          /\ ~frogOnLog(lanes[i], frog) /\ frogDrowned(lanes[i], frog)

\* the point is inside the hitbox of some obstacle of the lane
InSomeObstacle(lane, x, y) ==
    \E j \in 1..Len(lane.objs) :
        LET g == bbox(lane.objs[j])
        IN  g.l <= x /\ x <= g.r /\ g.b <= y /\ y <= g.t

\* a time step that takes a sliding frog a quarter of a cell further
QuarterCell == GRID_SIZE \div 4

\* the frog where it is, and where the slide in progress puts it after a
\* further time step of QuarterCell
FrogsInFlight ==
    {frog} \cup (IF lv.animator.active /\ err = "none"
                 THEN {slideSend(frog, lv.animator, QuarterCell).frog}
                 ELSE {})

\* C15 as claimed: Water.frogDrowned(frog) is True exactly when the frog's
\* centre is within the lane's tile and not inside any log's hitbox, the
\* frog's own hitbox playing no part.
C15_Original ==
    Loaded =>
        \A i \in 1..Len(lanes) : lanes[i].type = "water" =>
            \A f \in FrogsInFlight :
                (frogDrowned(lanes[i], f)
                    <=> (InTile(lanes[i], f.x, f.y)
                         /\ ~InSomeObstacle(lanes[i], f.x, f.y)))

\* time steps in quarters of a cell's slide, up to two slides long
FineDts == {QuarterCell * k : k \in 0..8}

\* where an obstacle at x is to be after an update of dt: shifted by
\* speed*dt and, once past the off-screen edge it moves toward, re-entered
\* from the opposite off-screen edge with the same overshoot
WrappedX(lane, x, dt) ==
    LET shifted == x + Travel(lane.lane_speed, dt)
        margin == lane.buffer * GRID_SIZE
        laneWidth == lane.window_width
    IN  IF lane.lane_speed < 0 /\ shifted <= -margin
        THEN (laneWidth + margin) + (shifted - (-margin))
        ELSE IF lane.lane_speed > 0 /\ shifted >= laneWidth + margin
             THEN (-margin) + (shifted - (laneWidth + margin))
             ELSE shifted

\* C16: Lane.update(dt) leaves every obstacle at x + speed*dt, or, when that
\* is at or past the off-screen edge the lane moves toward, at the opposite
\* off-screen edge plus the overshoot; obstacles of a lane of speed 0 do not
\* move.  It holds of every update the level makes and of an update of any
\* dt of FineDts in any state.
C16_WrapKeepsOvershoot ==
    /\ [](\A i \in 1..Len(lanes) : \A dt \in FineDts \cup DtSet :
            LET after == laneUpdate(lanes[i], dt)
            IN  /\ Len(after.objs) = Len(lanes[i].objs)
                /\ \A j \in 1..Len(lanes[i].objs) :
                      /\ after.objs[j].x = WrappedX(lanes[i], lanes[i].objs[j].x, dt)
                      /\ lanes[i].lane_speed = 0 => after.objs[j].x = lanes[i].objs[j].x)
    /\ [][(AtUpdate /\ err' = "none") =>
            \E dt \in DtSet : \A i \in 1..Len(lanes) : \A j \in 1..Len(lanes[i].objs) :
                lanes'[i].objs[j].x = WrappedX(lanes[i], lanes[i].objs[j].x, dt)]_vars

\* C16 witness: a car of a lane moving left is back in the right off-screen
\* margin, where only a wrap can have put it, and a log is about to leave
\* on the right
C16_Witness ==
    /\ \E i \in 1..Len(lanes) : \E j \in 1..Len(lanes[i].objs) :
          /\ lanes[i].lane_speed < 0
          /\ lanes[i].objs[j].x > lanes[i].window_width
    /\ \E i \in 1..Len(lanes) : \E j \in 1..Len(lanes[i].objs) :
          /\ lanes[i].lane_speed > 0
          /\ lanes[i].objs[j].x > lanes[i].window_width

\* an object data file whose log image is four cells wide
ObjectsWideLog ==
    [images |-> [log |-> [hitbox |-> <<4, 8, 4, 8>>, size |-> <<256, 64>>]]]

\* a level of one Water lane carrying that log, with a margin of one cell
LevelWideLog ==
    [size |-> <<3, 1>>, offscreen |-> 1,
     lanes |-> << [type |-> "water", speed |-> 256,
                   objects |-> << [type |-> "log", position |-> 1] >>] >>]

\* the lane after n updates of dt
RECURSIVE LaneAfter(_, _, _)
LaneAfter(lane, dt, n) ==
    IF n = 0 THEN lane ELSE laneUpdate(LaneAfter(lane, dt, n - 1), dt)

\* the lane of LevelWideLog as built, and after each of its first updates
WideLanes ==
    {LaneAfter(NewLane(LevelWideLog, LevelWideLog.lanes[1], 0, ObjectsWideLog), DtUnit, n) :
        n \in 0..8}

\* the time steps tried on a lane: those of the game and the finer ones up
\* to one slide long
WrapDts == DtSet \cup {QuarterCell * k : k \in 0..4}

\* the larger and the smaller of two numbers
Max(a, b) == IF a >= b THEN a ELSE b
Min(a, b) == IF a <= b THEN a ELSE b

\* update(dt) of the lane does not visibly teleport its obstacle j: if it
\* relocates the obstacle, the obstacle had left the visible range
\* [0, laneWidth] entirely at its shifted position, and no point of the
\* obstacle is inside the visible range both before and after
NoVisibleTeleport(lane, j, dt) ==
    LET x == lane.objs[j].x
        hw == lane.objs[j].width \div 2
        shifted == x + Travel(lane.lane_speed, dt)
        x2 == laneUpdate(lane, dt).objs[j].x
        W == lane.window_width
    IN  x2 # shifted =>
            /\ shifted + hw <= 0 \/ shifted - hw >= W
            /\ Max(-hw, Max(-x, -x2)) > Min(hw, Min(W - x, W - x2))

\* every obstacle of the lane is at most the off-screen margin wide on
\* either side of its centre
FitsMargin(lane) ==
    \A j \in 1..Len(lane.objs) : lane.objs[j].width \div 2 <= lane.buffer * GRID_SIZE

\* C17 as claimed: in no lane does an update visibly teleport an obstacle.
C17_Original ==
    \A lane \in Elems(lanes) \cup WideLanes : \A dt \in WrapDts :
        \A j \in 1..Len(lane.objs) : NoVisibleTeleport(lane, j, dt)

\* C17 amended: in a lane whose obstacles are at most twice the off-screen
\* margin wide, no update of up to one slide's duration visibly teleports
\* an obstacle: it is relocated only once it has left the visible range
\* entirely, and no point of it is visible both before and after.
C17_NoTeleportIfFits ==
    \A lane \in Elems(lanes) \cup WideLanes : FitsMargin(lane) =>
        \A dt \in WrapDts : \A j \in 1..Len(lane.objs) : NoVisibleTeleport(lane, j, dt)

\* C17 witness: the next update relocates a log of the level that fits the
\* margin and has just left the window
C17_Witness ==
    \E i \in 1..Len(lanes) : \E j \in 1..Len(lanes[i].objs) :
        /\ FitsMargin(lanes[i]) /\ lanes[i].lane_speed > 0
        /\ lanes[i].objs[j].x - lanes[i].objs[j].width \div 2 >= lanes[i].window_width - DtUnit
        /\ laneUpdate(lanes[i], DtUnit).objs[j].x < 0

\* the world w2 is the world w1 after setInitialFrog as C18 describes it
ResetAsDescribed(w1, w2) ==
    /\ w2.frog.x = (w1.lv.level_dict.size[1] \div 2) * GRID_SIZE + GRID_SIZE \div 2
    /\ w2.frog.y = GRID_SIZE \div 2
    /\ w2.frog.visible
    /\ ~w2.lv.frogKilled
    /\ ~w2.lv.animator.active
    /\ w2.frog.frame = FROG_REST
    /\ w2.lv.lives = w1.lv.lives
    /\ w2.lv.gameOver = w1.lv.gameOver
    /\ w2.lanes = w1.lanes
    /\ w2.err = w1.err

\* C18: setInitialFrog() puts the frog at the centre of the starting cell
\* (column width \div 2, row 0), makes it visible, clears the killed flag,
\* discards any slide in progress and sets the frame to rest; it leaves the
\* lives, the game-over flag and every lane (obstacles, exit lists) as they
\* were.  It holds of a call in any state and of the call made when the
\* game continues.
C18_ResetFrog ==
    /\ [](Loaded => ResetAsDescribed(Cur, setInitialFrog(Cur)))
    /\ [][Running(STATE_CONTINUE) =>
            ResetAsDescribed(Cur, [frog |-> frog', lanes |-> lanes', lv |-> lv', err |-> err'])]_vars

\* C18 witness: the game has continued after a life was lost: the new frog
\* is at the start, visible, and no slide is left
C18_Witness ==
    /\ Running(STATE_ACTIVE) /\ app.pc = "frame"
    /\ Len(lv.lives) < Len(displayLives)
    /\ ResetAsDescribed(Cur, Cur)

\* the descriptor of the loaded level with the type of lane i replaced by
\* one that Level.__init__ does not know
WithUnknownLane(i) == [lv.level_dict EXCEPT !.lanes[i].type = "lava"]

\* C19 as claimed: constructing a Level from a descriptor with a lane of
\* unknown type fails, wherever that lane is in the list.
C19_Original ==
    Loaded =>
        \A i \in 1..Len(lv.level_dict.lanes) :
            NewLevel(WithUnknownLane(i), Hitboxes).err # "none"

\* C20: when the frog's centre is inside an open exit and the key is down,
\* reachedExit returns False, the exit stays open, no safe-frog marker is
\* added and the frog's y grows by exactly one GRID_SIZE.  It holds of
\* getReachedExit for a frog put at the centre of any open exit, and of the
\* isInExit('down') the game calls with the frog in an open exit.
C20_DownNudges ==
    /\ [](\A i \in 1..Len(lanes) : \A n \in 1..Len(lanes[i].openexits) :
            LET obj == lanes[i].objs[lanes[i].openexits[n]]
                g == getReachedExit(lanes[i], FrogAt(obj.x, obj.y), "down")
            IN  /\ g.ret = FALSE
                /\ g.lane = lanes[i]
                /\ g.frog = FrogAt(obj.x, obj.y + GRID_SIZE))
    /\ [][\A i \in 1..Len(lanes) : \A j \in 1..Len(lanes[i].objs) :
            (/\ AtIsInExit /\ lanes[i].type = "hedge"
             /\ InList(j, lanes[i].openexits) /\ CentreInside(i, j)
             /\ app.key = "down")
            => /\ app'.pc = "isInExit" /\ app'.ret = FALSE /\ err' = "none"
               /\ lanes' = lanes
               /\ frog' = [frog EXCEPT !.y = @ + GRID_SIZE]
               /\ lv'.lives = lv.lives]_vars

\* C20 witness: isInExit('down') has returned False and the frog is one
\* cell above an exit that is still open
C20_Witness ==
    /\ app.pc = "isInExit" /\ ~app.ret /\ app.key = "down" /\ frog.visible
    /\ \E i \in 1..Len(lanes) : \E n \in 1..Len(lanes[i].openexits) :
          LET obj == lanes[i].objs[lanes[i].openexits[n]]
          IN  frog.y = obj.y + GRID_SIZE /\ obj.x - GRID_SIZE \div 2 < frog.x
              /\ frog.x < obj.x + GRID_SIZE \div 2

\* the frame in progress has reached the last branch of _animateActive: the
\* next thing the program does is call update(dt, key)
UpdateDue ==
    /\ Running(STATE_ACTIVE) /\ app.pc = "isInExit"
    /\ ~(app.ret /\ ~AfterExitWon.ret)
    /\ ~OverOrWon.ret

\* the Level as update(dt, key) of the frame in progress leaves it
AfterUpdate(dt) == update(OverOrWon.w, dt, app.key)

\* C21 as claimed: every update(dt, key) advances the obstacles of every
\* lane by speed*dt exactly once, whatever the frog's state and the key.
C21_Original ==
    UpdateDue =>
        \A dt \in DtSet : \A i \in 1..Len(lanes) :
            AfterUpdate(dt).lanes[i].objs = laneUpdate(lanes[i], dt).objs

\* the Level after the first part of update(dt, key) of the frame in
\* progress: the slide advanced or the key handled, the lanes not yet moved
AfterFrogStep(dt) == FrogStep(OverOrWon.w, dt, app.key)

\* update(dt, key) of the frame in progress completes the running slide
CompletesSlide(dt) ==
    /\ lv.animator.active
    /\ AfterFrogStep(dt).err = "none"
    /\ ~AfterFrogStep(dt).lv.animator.active

\* C22 as claimed: in the tick whose dt completes a slide, a frog for which
\* a death condition holds where it lands (before and after the lanes of
\* that tick have moved) loses a life in that same update.
C22_Original ==
    UpdateDue =>
        \A dt \in DtSet :
            (/\ CompletesSlide(dt)
             /\ checkDeath(AfterFrogStep(dt))
             /\ checkDeath([AfterUpdate(dt) EXCEPT !.frog.visible = TRUE]))
            => /\ Len(AfterUpdate(dt).lv.lives) = Len(lv.lives) - 1
               /\ ~AfterUpdate(dt).frog.visible

\* the frog's centre is in a Water lane and on no log, or it is beyond the
\* left or the right end of the level
DeathCondition ==
    \/ \E i \in 1..Len(lanes) :
          /\ lanes[i].type = "water"
          /\ InTile(lanes[i], frog.x, frog.y)
          /\ ~InSomeObstacle(lanes[i], frog.x, frog.y)
    \/ frog.x < 0
    \/ frog.x > lv.level_dict.size[1] * GRID_SIZE

\* C23: when the frog is at rest and its centre is in a Water lane on no
\* log, or its x is below 0 or above width*GRID_SIZE, the next update with
\* no key pressed takes a life: one life less, the frog invisible, the
\* killed flag set.
C23_RestingDeath ==
    [][(/\ AtUpdate /\ ~lv.animator.active /\ app.key = "none"
        /\ DeathCondition)
        => /\ Len(lv'.lives) = Len(lv.lives) - 1
           /\ ~frog'.visible
           /\ lv'.frogKilled
           /\ err' = "none"]_vars

\* C23 witness: a frog at rest in the water, off every log, with no key
\* pressed, and the update about to be made takes its life
C23_Witness ==
    /\ UpdateDue /\ ~lv.animator.active /\ app.key = "none"
    /\ frog.visible /\ DeathCondition
    /\ frog.x >= 0 /\ frog.x <= lv.level_dict.size[1] * GRID_SIZE
    /\ AfterUpdate(DtUnit).lv.frogKilled

\* C24 as claimed: on a tick with a direction key and no slide in progress,
\* a frog for which a death condition holds loses a life in that tick,
\* whether the move is made, blocked by a hedge or out of bounds.
C24_Original ==
    [][(/\ AtUpdate /\ ~lv.animator.active /\ app.key \in Directions
        /\ DeathCondition)
        => /\ Len(lv'.lives) = Len(lv.lives) - 1
           /\ ~frog'.visible]_vars

\* the facing angle that belongs to a direction key
AngleOf(key) ==
    CASE key = "up" -> FROG_NORTH
      [] key = "down" -> FROG_SOUTH
      [] key = "left" -> FROG_WEST
      [] key = "right" -> FROG_EAST

\* update(dt, key) is due with a direction key, no slide is in progress and
\* the move is blocked by a hedge
BlockedMoveDue ==
    /\ UpdateDue /\ ~lv.animator.active /\ app.key \in Directions
    /\ goingToHedge(OverOrWon.w, app.key)

\* C25 a direction key whose move is blocked by a hedge, with no slide in
\* progress: update turns the frog to that direction, starts no slide, keeps
\* the lives, keeps y, and changes x only by the travel of the log the frog
\* stands on after the lanes have moved.
C25_BlockedOnlyTurns ==
    BlockedMoveDue =>
        \A dt \in DtSet :
            LET a == AfterUpdate(dt)
            IN  /\ a.err = "none"
                /\ a.frog.angle = AngleOf(app.key)
                /\ ~a.lv.animator.active
                /\ Len(a.lv.lives) = Len(lv.lives)
                /\ a.frog.y = frog.y
                /\ a.frog.x = frog.x +
                      (IF OnLog(frog, a.lanes)
                       THEN Travel(CHOOSE s \in {a.lanes[i].lane_speed : i \in
                                      {k \in 1..Len(a.lanes) : a.lanes[k].type = "water"}} : TRUE, dt)
                       ELSE 0)

\* reached: a frog riding a log, not facing up, blocked by the hedge above
C25_Witness ==
    /\ BlockedMoveDue /\ app.key = "up" /\ frog.angle # FROG_NORTH
    /\ OnLog(frog, lanes)
    /\ AfterUpdate(2 * DtUnit).frog.x > frog.x
    /\ AfterUpdate(2 * DtUnit).frog.angle = FROG_NORTH

\* the bound the destination of a move in direction key has to keep
DestinationKeepsBound(key) ==
    CASE key = "left" -> frog.x - GRID_SIZE > 0
      [] key = "right" -> frog.x + GRID_SIZE < lv.level_dict.size[1] * GRID_SIZE
      [] key = "up" -> frog.y + GRID_SIZE < lv.level_dict.size[2] * GRID_SIZE
      [] key = "down" -> frog.y - GRID_SIZE > 0
      [] OTHER -> FALSE

\* C26 with no slide in progress, update(dt, key) starts a slide only if key
\* is a direction whose destination keeps its bound: left x - GRID_SIZE > 0,
\* right x + GRID_SIZE < width*GRID_SIZE, up y + GRID_SIZE < height*GRID_SIZE,
\* down y - GRID_SIZE > 0; any other key press starts no slide.
C26_SlideOnlyInsideLevel ==
    (UpdateDue /\ ~lv.animator.active) =>
        \A dt \in DtSet :
            AfterUpdate(dt).lv.animator.active => DestinationKeepsBound(app.key)

\* reached: a direction key at the edge of the level, not blocked by a hedge,
\* that starts no slide
C26_Witness ==
    /\ UpdateDue /\ ~lv.animator.active /\ app.key \in Directions
    /\ ~goingToHedge(OverOrWon.w, app.key)
    /\ ~DestinationKeepsBound(app.key)
    /\ AfterUpdate(DtUnit).err = "none"
    /\ ~AfterUpdate(DtUnit).lv.animator.active

\* C27 while a slide is in progress update(dt, key) ignores the key: its
\* result is the same for every key, the facing angle is unchanged, the
\* slide that is still running afterwards has the direction and destination
\* it had, and no life is lost in that tick.
C27_KeyIgnoredWhileSliding ==
    (UpdateDue /\ lv.animator.active) =>
        \A dt \in DtSet :
            LET a == AfterUpdate(dt)
            IN  /\ \A k \in Keys : update(OverOrWon.w, dt, k) = a
                /\ a.frog.angle = frog.angle
                /\ a.lv.animator.active =>
                      /\ a.lv.animator.direction = lv.animator.direction
                      /\ a.lv.animator.final_x = lv.animator.final_x
                      /\ a.lv.animator.final_y = lv.animator.final_y
                /\ Len(a.lv.lives) = Len(lv.lives)
                /\ a.frog.visible = frog.visible
                /\ a.lv.frogKilled = lv.frogKilled

\* reached: a slide in progress into open water, another direction key held,
\* and the slide going on after the tick
C27_Witness ==
    /\ UpdateDue /\ lv.animator.active
    /\ app.key \in Directions /\ app.key # lv.animator.direction
    /\ AfterUpdate(DtUnit).err = "none"
    /\ AfterUpdate(DtUnit).lv.animator.active
    /\ checkDeath(AfterUpdate(DtUnit))

\* C28 as claimed: every slide ends once the dt values of the update ticks
\* after its start add up to FROG_SPEED, in every direction and also on a
\* log: no slide is still running, in a program that raised no exception,
\* after it has been fed FROG_SPEED, and the tick that ends a slide leaves
\* the frog on the slide's axis exactly at its destination.
C28_Original ==
    /\ []((err = "none" /\ lv.animator.active) => lv.animator.fed < FROG_SPEED)
    /\ [][(AtUpdate /\ lv.animator.active /\ err' = "none" /\ ~lv'.animator.active)
           => IF lv.animator.direction \in {"left", "right"}
              THEN lv.animator.final_x = lv.animator.initial_x
                      + (IF lv.animator.direction = "right" THEN GRID_SIZE ELSE -GRID_SIZE)
              ELSE /\ frog'.y = lv.animator.final_y
                   /\ lv.animator.final_y = lv.animator.initial_y
                         + (IF lv.animator.direction = "up" THEN GRID_SIZE ELSE -GRID_SIZE)]_vars

\* the speed of the Water lane in ls that has a log under the centre of f
LogSpeed(f, ls) ==
    LET on == {i \in 1..Len(ls) :
                  /\ ls[i].type = "water"
                  /\ \E j \in 1..Len(ls[i].objs) :
                        LET g == bbox(ls[i].objs[j])
                        IN  g.l <= f.x /\ f.x <= g.r /\ g.b <= f.y /\ f.y <= g.t}
    IN  ls[CHOOSE i \in on : TRUE].lane_speed

\* C29 in each update that raises nothing, the last step, taken after the
\* lanes have moved, adds lane speed*dt to the frog's x if and only if the
\* frog's centre is inside the hitbox of a log of a Water lane; otherwise x
\* stays as the first part of update left it, and y always does.
C29_LogRiding ==
    UpdateDue =>
        \A dt \in DtSet :
            LET s == AfterFrogStep(dt)
                a == AfterUpdate(dt)
            IN  a.err = "none" =>
                   /\ a.frog.y = s.frog.y
                   /\ a.frog.x = IF OnLog(s.frog, a.lanes)
                                 THEN s.frog.x + Travel(LogSpeed(s.frog, a.lanes), dt)
                                 ELSE s.frog.x

\* reached: the frog's centre is on a log before the lanes move and off it
\* afterwards, so the frog is left behind
C29_Witness ==
    /\ UpdateDue /\ frog.visible
    /\ AfterUpdate(DtUnit).err = "none"
    /\ OnLog(AfterFrogStep(DtUnit).frog, lanes)
    /\ ~OnLog(AfterFrogStep(DtUnit).frog, AfterUpdate(DtUnit).lanes)
    /\ AfterUpdate(DtUnit).frog.x = AfterFrogStep(DtUnit).frog.x

\* the frog has been killed and the slide it was making is still held
KilledWhileSliding == lv.animator.active /\ ~frog.visible

\* C30 once the frog has been killed with a slide active, no step of the
\* program advances the frog along that slide: until the slide is
\* discarded, every step leaves the slide and the frog's position as they
\* are, and update is not called.
C30_KilledSlideDiscarded ==
    [][KilledWhileSliding =>
          /\ ~AtUpdate
          /\ \/ ~lv'.animator.active
             \/ /\ lv'.animator = lv.animator
                /\ frog'.x = frog.x /\ frog'.y = frog.y]_vars

\* reached: a frog run over in the middle of a slide, a new life about to
\* begin
C30_Witness ==
    /\ KilledWhileSliding
    /\ err = "none" /\ app.state = STATE_CONTINUE
    /\ lv.animator.fed > 0 /\ lv.animator.fed < FROG_SPEED
    /\ ~setInitialFrog(Cur).lv.animator.active

\* frogs to ask willReachExit about, for Hedge lane i and direction key: the
\* frog where it is, and a frog one cell before the centre of each exit of
\* the lane
LookAheadFrogs(i, key) ==
    {frog} \cup
    {FrogAt(CellBefore(lanes[i].objs[j].x, lanes[i].objs[j].y, key)[1],
            CellBefore(lanes[i].objs[j].x, lanes[i].objs[j].y, key)[2]) :
        j \in ExitsOf(i)}

\* C31 willReachExit(frog, key) is a function of the lane, the frog and the
\* key that returns a truth value and nothing else (no exit list, marker or
\* frog position is produced by it); it is True exactly when getReachedExit
\* returns True for the same key and a frog whose centre is one GRID_SIZE
\* further in direction key, and it is False for key down.
C31_LookAheadAgrees ==
    Loaded =>
        \A i \in 1..Len(lanes) : lanes[i].type = "hedge" =>
            \A key \in Directions : \A f \in LookAheadFrogs(i, key) :
                LET p == NextPoint(f, key)
                    ahead == [f EXCEPT !.x = p[1], !.y = p[2]]
                IN  /\ willReachExit(lanes[i], f, key) \in BOOLEAN
                    /\ willReachExit(lanes[i], f, key)
                          <=> getReachedExit(lanes[i], ahead, key).ret
                    /\ key = "down" => ~willReachExit(lanes[i], f, key)

\* reached: one exit is closed, the frog at rest below the other, open exit
\* with the up key held; the look-ahead and getReachedExit one cell further
\* both say yes, and below the closed exit both say no
C31_Witness ==
    /\ UpdateDue /\ ~lv.animator.active /\ app.key = "up"
    /\ \E i \in 1..Len(lanes) :
          /\ lanes[i].type = "hedge"
          /\ lanes[i].closedexits # <<>>
          /\ willReachExit(lanes[i], frog, "up")
          /\ getReachedExit(lanes[i], FrogAt(frog.x, frog.y + GRID_SIZE), "up").ret
          /\ \E n \in 1..Len(lanes[i].closedexits) :
                LET obj == lanes[i].objs[lanes[i].closedexits[n]]
                IN  ~willReachExit(lanes[i], FrogAt(obj.x, obj.y - GRID_SIZE), "up")

\* every Hedge lane of the level has all its exits closed: what isGameWon
\* reports
AllHedgesFull ==
    \A i \in 1..Len(lanes) : lanes[i].type = "hedge" => lanes[i].openexits = <<>>

\* the step calls no update: obstacles, frog and lives are as before
NoUpdateCall ==
    /\ frog' = frog /\ lanes' = lanes /\ lv'.lives = lv.lives
    /\ lv'.animator = lv.animator /\ err' = err

\* C32 a STATE_ACTIVE frame: after isFrogKilled() (its value in app.ret) the
\* frame ends in STATE_PAUSED if the frog was killed and the game is not
\* over, and goes on to isInExit(key) otherwise; after isInExit(key) it ends
\* in STATE_PAUSED if the frog reached an exit and the game is not won,
\* otherwise in STATE_COMPLETE if the game is over or won, otherwise it
\* stays in STATE_ACTIVE with one call of update(dt, key); a frame that
\* changes state calls no update.
C32_ActiveFrame ==
    [][/\ (Running(STATE_ACTIVE) /\ app.pc = "isFrogKilled") =>
            IF app.ret /\ ~lv.gameOver
            THEN app'.state = STATE_PAUSED /\ app'.pc = "frame" /\ NoUpdateCall
            ELSE app'.state = STATE_ACTIVE /\ app'.pc = "isInExit"
       /\ (Running(STATE_ACTIVE) /\ app.pc = "isInExit") =>
            /\ app'.pc = "frame"
            /\ IF app.ret /\ ~AllHedgesFull
               THEN app'.state = STATE_PAUSED /\ NoUpdateCall
               ELSE IF lv.gameOver \/ AllHedgesFull
                    THEN app'.state = STATE_COMPLETE /\ NoUpdateCall
                    ELSE /\ app'.state = STATE_ACTIVE
                         /\ \E dt \in DtSet :
                               LET a == AfterUpdate(dt)
                               IN  /\ frog' = a.frog /\ lanes' = a.lanes
                                   /\ lv' = a.lv /\ err' = a.err]_vars

\* reached: the frog has just closed the last open exit with lives left, so
\* the frame is about to end in STATE_COMPLETE
C32_Witness ==
    /\ Running(STATE_ACTIVE) /\ app.pc = "isInExit"
    /\ app.ret /\ AllHedgesFull /\ ~lv.gameOver
    /\ \E i \in 1..Len(lanes) : Len(lanes[i].closedexits) >= 2

\* C33 STATE_LOADING and STATE_CONTINUE last one frame each: the frame run
\* in either state ends in STATE_ACTIVE; STATE_CONTINUE is entered only from
\* STATE_PAUSED; and the frame of STATE_CONTINUE leaves the level as one
\* call of setInitialFrog() leaves it.
C33_OneFrameStates ==
    [][/\ Running(STATE_LOADING) => app'.state = STATE_ACTIVE
       /\ Running(STATE_CONTINUE) =>
             /\ app'.state = STATE_ACTIVE
             /\ frog' = setInitialFrog(Cur).frog
             /\ lanes' = setInitialFrog(Cur).lanes
             /\ lv' = setInitialFrog(Cur).lv
             /\ err' = "none"
       /\ (app'.state = STATE_CONTINUE /\ app.state # STATE_CONTINUE)
             => app.state = STATE_PAUSED]_vars

\* reached: STATE_CONTINUE after the frog went into an exit, the frog still
\* hidden there, and setInitialFrog() about to put a new frog at the start
C33_Witness ==
    /\ Running(STATE_CONTINUE)
    /\ ~frog.visible /\ lv.inExit
    /\ setInitialFrog(Cur).frog.visible
    /\ setInitialFrog(Cur).frog.y < frog.y

\* the application states the claim names: all but loading and active
IdleStates == {STATE_INACTIVE, STATE_PAUSED, STATE_CONTINUE, STATE_COMPLETE}

\* C34 as claimed: in a frame run in state inactive, paused, continue or
\* complete, the obstacles of the lanes, the position of the frog and the
\* lives are left as they are.
C34_Original ==
    [][app.state \in IdleStates =>
          /\ lanes' = lanes
          /\ frog'.x = frog.x /\ frog'.y = frog.y
          /\ lv'.lives = lv.lives]_vars

\* C34 in a frame run in state inactive, paused, continue or complete no
\* update is made: the lanes and their obstacles, the lives and the error
\* state are left as they are, and so is the frog in every one of these
\* states but continue, whose frame puts the frog where setInitialFrog()
\* puts it.
C34_IdleFrames ==
    [][app.state \in IdleStates =>
          /\ lanes' = lanes
          /\ lv'.lives = lv.lives
          /\ err' = err
          /\ IF app.state = STATE_CONTINUE
             THEN frog' = setInitialFrog(Cur).frog
             ELSE frog' = frog /\ lv'.animator = lv.animator]_vars

\* reached: a pause with a slide in flight, the frog between two cells, and
\* lanes whose obstacles an update would move
C34_Witness ==
    /\ Running(STATE_PAUSED)
    /\ lv.animator.active /\ ~CellCentre(frog.x, frog.y)
    /\ update(Cur, DtUnit, "none").lanes # lanes

\* C35 in every reachable state the frog's frame is an integer from 0 to
\* FROG_STRETCHED, and it is FROG_REST (0) whenever no slide is in progress,
\* also after slides made while a log carried the frog.
C35_FrameRange ==
    Loaded =>
        /\ frog.frame \in FROG_REST..FROG_STRETCHED
        /\ ~lv.animator.active => frog.frame = FROG_REST

\* reached: a sideways slide made on a moving log, the frog on the log and
\* off the rest frame, that the next update ends with the frog at the rest
\* frame
C35_Witness ==
    /\ UpdateDue /\ frog.visible
    /\ lv.animator.active /\ lv.animator.direction \in {"left", "right"}
    /\ OnLog(frog, lanes)
    /\ frog.frame # FROG_REST
    /\ AfterUpdate(2 * DtUnit).err = "none"
    /\ ~AfterUpdate(2 * DtUnit).lv.animator.active
    /\ AfterUpdate(2 * DtUnit).frog.frame = FROG_REST

\* C36 under the application loop a life is taken only from a frog that is
\* alive (visible), one life at a time and never from an empty lives list,
\* and it leaves the frog dead; a dead frog comes back only through
\* setInitialFrog() in the frame of STATE_CONTINUE.  So no two lives are
\* lost without a setInitialFrog() call between them.
C36_OneLifePerFrog ==
    /\ [](err # "IndexError")
    /\ [][Len(lv'.lives) < Len(lv.lives) =>
             /\ frog.visible /\ ~frog'.visible
             /\ Len(lv.lives) > 0
             /\ Len(lv'.lives) = Len(lv.lives) - 1]_vars
    /\ [][(Loaded /\ ~frog.visible /\ frog'.visible) =>
             /\ app.state = STATE_CONTINUE
             /\ frog' = setInitialFrog(Cur).frog]_vars

\* reached: the frame after a frog has drowned: the dead frog is still in
\* open water, where the death check would answer yes once more, and lives
\* are left to lose
C36_Witness ==
    /\ AtIsFrogKilled
    /\ ~frog.visible /\ lv.frogKilled /\ ~lv.inExit
    /\ DeathCondition /\ checkDeath(Cur)
    /\ Len(lv.lives) >= 1

\* C37 as claimed: in every state reachable under the application loop the
\* frog's centre is inside the vertical extent of the level,
\* 0 < y < height*GRID_SIZE, also after isInExit was called with key down
\* for a frog on its way into an exit of the top row.
C37_Original ==
    Loaded => (0 < frog.y /\ frog.y < lv.level_dict.size[2] * GRID_SIZE)

\* a level whose Road lane lies directly under the Hedge lane
LevelRoadUnderHedge ==
    [size |-> <<3, 3>>,
     offscreen |-> 1,
     lanes |-> <<
        [type |-> "grass", speed |-> 0, objects |-> <<>>],
        [type |-> "road", speed |-> -256,
         objects |-> << [type |-> "car", position |-> 0] >>],
        [type |-> "hedge", speed |-> 0,
         objects |-> << [type |-> "exit", position |-> 1],
                        [type |-> "exit", position |-> 2] >>] >>]

\* Froggit._animateLoading when DEFAULT_LEVEL names that level file
animateLoadingRoad ==
    /\ Running(STATE_LOADING)
    /\ Becomes(NewLevel(LevelRoadUnderHedge, Hitboxes))
    /\ app' = IF err' = "none"
              THEN [app EXCEPT !.level = "Level", !.state = STATE_ACTIVE]
              ELSE app

\* frame times of a quarter of a slide and of a whole slide
FrameDts == {QuarterCell, 2 * DtUnit}

\* else: self._level.update(dt, key), with those frame times
activeUpdateFrames ==
    /\ Running(STATE_ACTIVE) /\ app.pc = "isInExit"
    /\ ~(app.ret /\ ~AfterExitWon.ret)
    /\ ~OverOrWon.ret
    /\ \E dt \in FrameDts : Becomes(update(OverOrWon.w, dt, app.key))
    /\ EndFrame(STATE_ACTIVE)

\* Froggit.update(dt) for the game played on that level
NextRoad ==
    \/ animateInactive
    \/ animateLoadingRoad
    \/ activeIsFrogKilled
    \/ activePauseKilled
    \/ activeIsInExit
    \/ activePauseExit
    \/ activeComplete
    \/ activeUpdateFrames
    \/ animatePaused
    \/ animateContinue
    \/ animateComplete

SpecRoad == Init /\ [][NextRoad]_vars

\* C38 as claimed: in every state reachable under the application loop
\* isGameOver() and isGameWon() are not both True: a frog that has just
\* lost its last life does not also close the last open exit.
C38_Original ==
    Loaded => ~(isGameOver(Cur) /\ isGameWon(Cur).ret)

\* the length of the stretch the obstacles of a lane travel through: the
\* window and the off-screen margin at either end
WrapPeriod(lane) == lane.window_width + 2 * lane.buffer * GRID_SIZE

\* x is inside [-buffer*GRID_SIZE, laneWidth + buffer*GRID_SIZE]
InWrapRange(lane, x) ==
    /\ -lane.buffer * GRID_SIZE <= x
    /\ x <= lane.window_width + lane.buffer * GRID_SIZE

\* time steps up to and beyond the one that takes an obstacle once around
LongDts == {TicksPerSecond, TicksPerSecond + GRID_SIZE, TicksPerSecond + 2 * GRID_SIZE}

\* lane i of the level as it is, and with one obstacle put on either end of
\* the range
LanesToUpdate(i) ==
    {lanes[i]} \cup
    {[lanes[i] EXCEPT !.objs[j].x = e] :
        j \in 1..Len(lanes[i].objs),
        e \in {-lanes[i].buffer * GRID_SIZE,
               lanes[i].window_width + lanes[i].buffer * GRID_SIZE}}

\* C39 after Lane.update(dt) with |speed*dt| at most the window plus both
\* margins, every obstacle of a lane of speed other than 0 that was inside
\* [-buffer*GRID_SIZE, laneWidth + buffer*GRID_SIZE] is inside that range
\* still, and its position modulo laneWidth + 2*buffer*GRID_SIZE has
\* advanced by exactly speed*dt.  The lanes are taken as each frame finds
\* them (they move only in update, at the end of a frame).
C39_WrapStaysInRange ==
    app.pc = "frame" =>
    \A i \in 1..Len(lanes) : lanes[i].lane_speed # 0 =>
        \A lane \in LanesToUpdate(i) : \A dt \in DtSet \cup LongDts :
            Abs(Travel(lane.lane_speed, dt)) <= WrapPeriod(lane) =>
                \A j \in 1..Len(lane.objs) :
                    InWrapRange(lane, lane.objs[j].x) =>
                        LET x2 == laneUpdate(lane, dt).objs[j].x
                        IN  /\ InWrapRange(lane, x2)
                            /\ (x2 - lane.objs[j].x - Travel(lane.lane_speed, dt))
                                  % WrapPeriod(lane) = 0

\* reached: a car of a lane moving left so close to the left end of the range
\* that the next update takes it round to the right
C39_Witness ==
    \E i \in 1..Len(lanes) : \E j \in 1..Len(lanes[i].objs) :
        /\ lanes[i].lane_speed < 0
        /\ InWrapRange(lanes[i], lanes[i].objs[j].x)
        /\ lanes[i].objs[j].x < 0
        /\ laneUpdate(lanes[i], 2 * DtUnit).objs[j].x > lanes[i].window_width

\* else: self._level.update(dt, key), for frames that take time: dt > 0
activeUpdateTicks ==
    /\ Running(STATE_ACTIVE) /\ app.pc = "isInExit"
    /\ ~(app.ret /\ ~AfterExitWon.ret)
    /\ ~OverOrWon.ret
    /\ \E dt \in DtSet \ {0} : Becomes(update(OverOrWon.w, dt, app.key))
    /\ EndFrame(STATE_ACTIVE)

\* Froggit.update(dt) with dt > 0
NextTicks ==
    \/ animateInactive
    \/ animateLoading
    \/ activeIsFrogKilled
    \/ activePauseKilled
    \/ activeIsInExit
    \/ activePauseExit
    \/ activeComplete
    \/ activeUpdateTicks
    \/ animatePaused
    \/ animateContinue
    \/ animateComplete

\* The window calls update(dt) for frame after frame, so a game that stays
\* in STATE_ACTIVE makes update after update: the weak fairness of the
\* frames of _animateActive, with the condition under which a frame can
\* run written out as Running(STATE_ACTIVE).
FramesKeepRunning ==
    \/ []<>(~Running(STATE_ACTIVE))
    \/ []<><<activeUpdateTicks>>_vars

SpecTicks == Init /\ [][NextTicks]_vars /\ FramesKeepRunning

\* the frog is at rest on a log of a Water lane that moves
Riding ==
    /\ Running(STATE_ACTIVE) /\ frog.visible /\ ~lv.animator.active
    /\ OnLog(frog, lanes)
    /\ LogSpeed(frog, lanes) # 0

\* the lives a new Level starts with
InitialLives == Len(NewLevel(Level1, Hitboxes).lv.lives)

\* C40 under the application loop with ticks of dt > 0, a frog at rest on a
\* log of a moving Water lane eventually loses a life unless the player
\* presses a direction key: it does not ride forever.
C40_RiderLosesLife ==
    \A n \in 1..InitialLives :
        (Riding /\ Len(lv.lives) = n)
            ~> (Len(lv.lives) < n \/ app.key \in Directions)

\* reached: the frog at rest on the log, no key held, and the update that is
\* due takes the log round to the other end and leaves the frog in the water
C40_Witness ==
    /\ Riding /\ UpdateDue /\ app.key = "none"
    /\ frog.x <= lv.level_dict.size[1] * GRID_SIZE
    /\ ~OnLog(frog, AfterUpdate(2 * DtUnit).lanes)
    /\ AfterUpdate(2 * DtUnit).frog.visible
    /\ checkDeath(AfterUpdate(2 * DtUnit))

=============================================================================
